---- MODULE Spec2Model ----
(***************************************************************************)
(* Offline-first library catalog and pull-merge-push sync engine of the    *)
(* yomiyougu reader (src-tauri/src).  Each device owns a local catalog     *)
(* (books, collections, book_collections, bookmarks, book_settings,        *)
(* sync_state, app settings); the devices share one Drive appData area     *)
(* holding sync_snapshot.json files and archive blobs.                     *)
(*                                                                         *)
(* Time is a logical clock in milliseconds: every catalog write by a user  *)
(* command and every merge reads the clock and advances it.  A NULL        *)
(* time / id is 0.       A value written by an edit is the time of the     *)
(* edit, so two different edits never write the same value.  A fresh       *)
(* UUID (Uuid::new_v4) is the time of its creation, unique per table.      *)
(***************************************************************************)
EXTENDS Integers, Sequences, FiniteSets, TLC

VARIABLES
    now,              \* chrono::Utc::now(), in milliseconds
    books,            \* [Dev -> Seq(Book)], row id = index
    collections,      \* [Dev -> Seq(Collection)], row id = index
    book_collections, \* [Dev -> SUBSET BookCollection]
    bookmarks,        \* [Dev -> Seq(Bookmark)], row id = index
    book_settings,    \* [Dev -> Seq(BookSettings)], row id = index
    sync_state,       \* [Dev -> SyncState], the singleton row of each device
    app_settings,     \* [Dev -> AppSettings], the settings.json document
    drive_files,      \* Seq(SyncSnapshot): files named sync_snapshot.json
    drive_blobs,      \* set of file hashes H with a blob book_{H}.cbz
    inv,              \* [Inv -> invocation of sync_now in flight]
    token,            \* [Dev -> AuthToken], the token kept in the vault
    library_dir,      \* [Dev -> set of files of app_data_dir/library]
    returned,         \* [Dev -> what the last sync_now or import returned]
    calc,             \* the input of a function under check and what it gave
    IMAGE_LIST_CACHE, \* [Dev -> [book id -> image list]], the static of protocol.rs
    page_requests     \* [Dev -> calls of get_cached_image_list in flight, order of use]

vars == <<now, books, collections, book_collections, bookmarks, book_settings,
          sync_state, app_settings, drive_files, drive_blobs, inv,
          token, library_dir, returned, calc, IMAGE_LIST_CACHE, page_requests>>

catalog_vars == <<books, collections, book_collections, bookmarks,
                  book_settings, sync_state, app_settings>>

\* ------------------------------------------------------------------------
\* Bounds and universes
\* ------------------------------------------------------------------------
MaxTime == 7

\* The horizon of the specifications with the larger sets of commands.
ShortTime == 6

\* The time from which the devices of SpecQuiet stop editing, and the
\* number of sync_now runs after which they are compared.
QuietFrom == 3

QuietSyncs == 4

Dev == {"X", "Y", "Z"}

Inv == {1, 2}

Hashes == {"H"}

Names == {"N"}

NULL == 0

NoHash == "none"

Max(S) == CHOOSE x \in S : \A y \in S : y <= x

Range(s) == {s[i] : i \in DOMAIN s}

\* All orders in which a finite set can be enumerated (HashMap::iter gives
\* an arbitrary order).
RECURSIVE Orders(_)
Orders(S) ==
    IF S = {} THEN {<<>>}
    ELSE UNION {{<<x>> \o o : o \in Orders(S \ {x})} : x \in S}

\* ------------------------------------------------------------------------
\* sync/types.rs
\* ------------------------------------------------------------------------
\* A NaiveDateTime is counted in half milliseconds, a timestamp of the
\* snapshot in milliseconds: to_timestamp drops the part below the
\* millisecond, from_timestamp gives a time on the millisecond.
to_timestamp(dt) == dt \div 2

from_timestamp(ts) == 2 * ts

\* chrono::Utc::now().naive_utc() read when the clock shows millisecond t:
\* a time within that millisecond.
NaiveUtc(t) == 2 * t + 1

to_opt_timestamp(dt) == IF dt = NULL THEN NULL ELSE to_timestamp(dt)

from_opt_timestamp(ts) == IF ts = NULL THEN NULL ELSE from_timestamp(ts)

CURRENT_VERSION == 1

SyncSnapshot_new ==
    [version |-> CURRENT_VERSION,
     last_modified_by |-> "none",
     last_modified_at |-> 0,
     books |-> <<>>,
     bookmarks |-> <<>>,
     collections |-> <<>>,
     book_collections |-> <<>>,
     book_settings |-> <<>>,
     app_settings |-> {},
     app_settings_updated_at |-> 0]

ConflictStrategy_default == "LastWriteWins"

\* The three combinations of sync.books / sync.progress / sync.settings used
\* by the specifications below; sync_books_files is read from sync.books too.
SyncOptions(b, p, s) ==
    [sync_books |-> b, sync_books_files |-> b, sync_progress |-> p, sync_settings |-> s]

OptFull == SyncOptions(TRUE, TRUE, FALSE)

OptProgress == SyncOptions(FALSE, TRUE, FALSE)

OptSettings == SyncOptions(FALSE, FALSE, TRUE)

OptBooks == SyncOptions(TRUE, FALSE, FALSE)

\* ------------------------------------------------------------------------
\* The local catalog of one device as a value
\* ------------------------------------------------------------------------
Catalog(d) ==
    [books |-> books[d],
     collections |-> collections[d],
     book_collections |-> book_collections[d],
     bookmarks |-> bookmarks[d],
     book_settings |-> book_settings[d],
     sync_state |-> sync_state[d],
     app_settings |-> app_settings[d]]

EmptyCatalog ==
    [books |-> <<>>,
     collections |-> <<>>,
     book_collections |-> {},
     bookmarks |-> <<>>,
     book_settings |-> <<>>,
     sync_state |-> [last_sync_at |-> NULL, last_sync_device |-> "none", sync_file_id |-> NULL],
     app_settings |-> [value |-> {0}, updated_at |-> 0]]

\* HashMap<String, &Row> collected from the loaded rows: a later row replaces
\* an earlier one with the same key.  0 when the key is absent.
IdByUuid(rows, u) ==
    LET S == {i \in DOMAIN rows : rows[i].uuid = u}
    IN  IF S = {} THEN 0 ELSE Max(S)

IdByHash(rows, h) ==
    LET S == {i \in DOMAIN rows : rows[i].file_hash # NoHash /\ rows[i].file_hash = h}
    IN  IF S = {} THEN 0 ELSE Max(S)

\* books::table.filter(uuid.eq(u)).select(id).first(): the first row.
find_book_id_by_uuid(rows, u) ==
    LET S == {i \in DOMAIN rows : rows[i].uuid = u}
    IN  IF S = {} THEN 0 ELSE CHOOSE i \in S : \A j \in S : i <= j

\* ------------------------------------------------------------------------
\* sync/merge.rs: conflict resolution
\* ------------------------------------------------------------------------
resolve_conflict(strategy, local_ts, remote_ts, remote_deleted, local_deleted) ==
    IF remote_deleted /\ ~local_deleted THEN "UseRemote"
    ELSE IF local_deleted /\ ~remote_deleted THEN "UseLocal"
    ELSE IF strategy = "RemoteWins" THEN "UseRemote"
    ELSE IF strategy = "LocalWins" THEN "UseLocal"
    ELSE IF remote_ts > local_ts THEN "UseRemote"
    ELSE IF local_ts > remote_ts THEN "UseLocal"
    ELSE "NoOp"

\* ------------------------------------------------------------------------
\* sync/merge.rs: books
\* ------------------------------------------------------------------------
\* title stands for the metadata fields title and is_favorite, page for the
\* progress fields reading_status and last_read_at.
update_local_book(row, remote) ==
    [row EXCEPT !.title = remote.title,
                !.current_page = remote.current_page,
                !.total_pages = remote.total_pages,
                !.page = remote.page,
                !.updated_at = from_timestamp(remote.updated_at),
                !.deleted_at = from_opt_timestamp(remote.deleted_at)]

update_local_book_progress(row, remote) ==
    [row EXCEPT !.current_page = remote.current_page,
                !.page = remote.page,
                !.updated_at = from_timestamp(remote.updated_at)]

\* The UPDATE of the row found by file_hash (merge.rs 171-195).
update_uuid_by_hash(row, uuid, remote, full_sync) ==
    IF full_sync
    THEN [row EXCEPT !.uuid = uuid,
                     !.title = remote.title,
                     !.current_page = remote.current_page,
                     !.page = remote.page,
                     !.updated_at = from_timestamp(remote.updated_at)]
    ELSE [row EXCEPT !.uuid = uuid,
                     !.current_page = remote.current_page,
                     !.page = remote.page]

\* file_path: a local archive holding content h, or the placeholder
\* cloud://{uuid} of a book known from sync only.
FilePath(h) == [kind |-> "file", hash |-> h, uuid |-> NULL]

CloudPath(u) == [kind |-> "cloud", hash |-> NoHash, uuid |-> u]

\* INSERT of a cloud-only book; file_path is UNIQUE (database/tests.rs
\* test_book_unique_file_path), so the insert can fail.
insert_local_book(st, remote) ==
    LET path == CloudPath(remote.uuid)
    IN  IF \E i \in DOMAIN st.books : st.books[i].file_path = path
        THEN [st EXCEPT !.err = TRUE]
        ELSE [st EXCEPT !.books = Append(@,
                [uuid |-> remote.uuid,
                 file_path |-> path,
                 file_hash |-> remote.file_hash,
                 title |-> remote.title,
                 current_page |-> remote.current_page,
                 total_pages |-> remote.total_pages,
                 page |-> remote.page,
                 updated_at |-> from_timestamp(remote.updated_at),
                 deleted_at |-> NULL])]

book_to_remote(book) ==
    [uuid |-> book.uuid,
     file_hash |-> book.file_hash,
     title |-> book.title,
     current_page |-> book.current_page,
     total_pages |-> book.total_pages,
     page |-> book.page,
     updated_at |-> to_timestamp(book.updated_at),
     deleted_at |-> to_opt_timestamp(book.deleted_at)]

\* One iteration of "Process remote books" (merge.rs 127-206).  st holds the
\* books table as written so far and the error flag; local_books is the list
\* loaded before the loop.
merge_books_remote(st, uuid, remote_book, local_books, strategy, full_sync) ==
    IF st.err THEN st
    ELSE
    LET lid == IdByUuid(local_books, uuid) IN
    IF lid # 0
    THEN LET local_book == local_books[lid]
             action == resolve_conflict(strategy,
                            to_timestamp(local_book.updated_at),
                            remote_book.updated_at,
                            remote_book.deleted_at # NULL,
                            local_book.deleted_at # NULL)
         IN  IF action = "UseRemote"
             THEN [st EXCEPT !.books[lid] =
                        IF full_sync THEN update_local_book(@, remote_book)
                        ELSE update_local_book_progress(@, remote_book)]
             ELSE st
    ELSE IF remote_book.deleted_at = NULL
    THEN LET hid == IF remote_book.file_hash = NoHash THEN 0
                    ELSE IdByHash(local_books, remote_book.file_hash)
         IN  IF hid # 0
             THEN [st EXCEPT !.books[hid] =
                        update_uuid_by_hash(@, uuid, remote_book, full_sync)]
             ELSE IF full_sync THEN insert_local_book(st, remote_book)
             ELSE st
    ELSE st

RECURSIVE merge_books_download(_, _, _, _, _, _)
merge_books_download(st, order, remote_books, local_books, strategy, full_sync) ==
    IF order = <<>> THEN st
    ELSE merge_books_download(
            merge_books_remote(st, Head(order), remote_books[Head(order)],
                               local_books, strategy, full_sync),
            Tail(order), remote_books, local_books, strategy, full_sync)

\* One iteration of "Process local books" (merge.rs 209-247): whether the
\* row is written to the snapshot, and the record written.
merge_books_local_put(snapshot_books, local_book, last_sync_at, full_sync) ==
    LET local_ts == to_timestamp(local_book.updated_at)
    IN  IF local_book.uuid \in DOMAIN snapshot_books
        THEN local_ts > snapshot_books[local_book.uuid].updated_at /\ local_ts > last_sync_at
        ELSE full_sync

\* A local loop that uploads every field whatever the mode.
merge_books_local_record_all_fields(snapshot_books, local_book, full_sync) ==
    book_to_remote(local_book)

merge_books_local_record(snapshot_books, local_book, full_sync) ==
    IF local_book.uuid \in DOMAIN snapshot_books /\ ~full_sync
    THEN [snapshot_books[local_book.uuid] EXCEPT
                !.current_page = local_book.current_page,
                !.page = local_book.page,
                !.updated_at = to_timestamp(local_book.updated_at)]
    ELSE book_to_remote(local_book)

RECURSIVE merge_books_upload(_, _, _, _, _)
merge_books_upload(snapshot_books, local_books, k, last_sync_at, full_sync) ==
    IF k > Len(local_books) THEN snapshot_books
    ELSE merge_books_upload(
            IF merge_books_local_put(snapshot_books, local_books[k], last_sync_at, full_sync)
            THEN (local_books[k].uuid :>
                    merge_books_local_record(snapshot_books, local_books[k], full_sync))
                 @@ snapshot_books
            ELSE snapshot_books,
            local_books, k + 1, last_sync_at, full_sync)

\* merge_books: st = [cat, snapshot, err]; order enumerates snapshot.books.
merge_books(st, order, last_sync_at, strategy, full_sync) ==
    LET local_books == st.cat.books
        down == merge_books_download([books |-> local_books, err |-> FALSE], order,
                                     st.snapshot.books, local_books, strategy, full_sync)
    IN  IF down.err
        THEN [st EXCEPT !.cat.books = down.books, !.err = TRUE]
        ELSE [st EXCEPT !.cat.books = down.books,
                        !.snapshot.books =
                            merge_books_upload(@, local_books, 1, last_sync_at, full_sync)]

\* ------------------------------------------------------------------------
\* sync/merge.rs: collections
\* ------------------------------------------------------------------------
\* collections.name is UNIQUE over all rows (database/tests.rs
\* test_collection_unique_name_constraint; delete_collection renames for it).
update_local_collection(st, id, remote) ==
    IF \E i \in DOMAIN st.collections : i # id /\ st.collections[i].name = remote.name
    THEN [st EXCEPT !.err = TRUE]
    ELSE [st EXCEPT !.collections[id] =
            [@ EXCEPT !.name = remote.name,
                      !.description = remote.description,
                      !.updated_at = from_timestamp(remote.updated_at),
                      !.deleted_at = from_opt_timestamp(remote.deleted_at)]]

insert_local_collection(st, remote) ==
    IF \E i \in DOMAIN st.collections : st.collections[i].name = remote.name
    THEN [st EXCEPT !.err = TRUE]
    ELSE [st EXCEPT !.collections = Append(@,
            [uuid |-> remote.uuid,
             name |-> remote.name,
             description |-> remote.description,
             updated_at |-> from_timestamp(remote.updated_at),
             deleted_at |-> NULL])]

collection_to_remote(collection) ==
    [uuid |-> collection.uuid,
     name |-> collection.name,
     description |-> collection.description,
     updated_at |-> to_timestamp(collection.updated_at),
     deleted_at |-> to_opt_timestamp(collection.deleted_at)]

merge_collections_remote(st, uuid, remote_coll, local_collections, strategy) ==
    IF st.err THEN st
    ELSE
    LET lid == IdByUuid(local_collections, uuid) IN
    IF lid # 0
    THEN LET local_coll == local_collections[lid]
             action == resolve_conflict(strategy,
                            to_timestamp(local_coll.updated_at),
                            remote_coll.updated_at,
                            remote_coll.deleted_at # NULL,
                            local_coll.deleted_at # NULL)
         IN  IF action = "UseRemote" THEN update_local_collection(st, lid, remote_coll)
             ELSE st
    ELSE IF remote_coll.deleted_at = NULL THEN insert_local_collection(st, remote_coll)
    ELSE st

RECURSIVE merge_collections_download(_, _, _, _, _)
merge_collections_download(st, order, remote_colls, local_collections, strategy) ==
    IF order = <<>> THEN st
    ELSE merge_collections_download(
            merge_collections_remote(st, Head(order), remote_colls[Head(order)],
                                     local_collections, strategy),
            Tail(order), remote_colls, local_collections, strategy)

RECURSIVE merge_collections_upload(_, _, _, _)
merge_collections_upload(snapshot_colls, local_collections, k, last_sync_at) ==
    IF k > Len(local_collections) THEN snapshot_colls
    ELSE LET local_coll == local_collections[k]
             uuid == local_coll.uuid
             local_ts == to_timestamp(local_coll.updated_at)
             put == IF uuid \in DOMAIN snapshot_colls
                    THEN local_ts > snapshot_colls[uuid].updated_at /\ local_ts > last_sync_at
                    ELSE TRUE
         IN  merge_collections_upload(
                IF put THEN (uuid :> collection_to_remote(local_coll)) @@ snapshot_colls
                ELSE snapshot_colls,
                local_collections, k + 1, last_sync_at)

merge_collections(st, order, last_sync_at, strategy) ==
    LET local_collections == st.cat.collections
        down == merge_collections_download(
                    [collections |-> local_collections, err |-> FALSE], order,
                    st.snapshot.collections, local_collections, strategy)
    IN  IF down.err
        THEN [st EXCEPT !.cat.collections = down.collections, !.err = TRUE]
        ELSE [st EXCEPT !.cat.collections = down.collections,
                        !.snapshot.collections =
                            merge_collections_upload(@, local_collections, 1, last_sync_at)]

\* ------------------------------------------------------------------------
\* sync/merge.rs: book_collections (junction)
\* ------------------------------------------------------------------------
\* One iteration of the download loop (merge.rs 476-521); rows is the table
\* as written so far, local_bc_uuids the uuids loaded before the loop.
merge_book_collections_remote(rows, uuid, remote_bc, local_bc_uuids, cat_books, cat_colls) ==
    IF remote_bc.deleted_at # NULL THEN rows
    ELSE IF uuid \in local_bc_uuids THEN rows
    ELSE LET book_id == IdByUuid(cat_books, remote_bc.book_uuid)
             coll_id == IdByUuid(cat_colls, remote_bc.collection_uuid)
         IN  IF book_id = 0 THEN rows
             ELSE IF coll_id = 0 THEN rows
             ELSE IF \E bc \in rows : bc.book_id = book_id /\ bc.collection_id = coll_id
             THEN rows
             ELSE rows \cup {[uuid |-> uuid,
                              book_id |-> book_id,
                              collection_id |-> coll_id,
                              added_at |-> from_timestamp(remote_bc.added_at),
                              updated_at |-> NULL,
                              deleted_at |-> NULL]}

RECURSIVE merge_book_collections_download(_, _, _, _, _, _)
merge_book_collections_download(rows, order, remote_bcs, local_bc_uuids, cat_books, cat_colls) ==
    IF order = <<>> THEN rows
    ELSE merge_book_collections_download(
            merge_book_collections_remote(rows, Head(order), remote_bcs[Head(order)],
                                          local_bc_uuids, cat_books, cat_colls),
            Tail(order), remote_bcs, local_bc_uuids, cat_books, cat_colls)

\* The upload loop (merge.rs 524-550): local rows whose uuid the snapshot
\* does not hold are added; rows it holds are left as they are.
merge_book_collections_upload(snapshot_bcs, local_bcs, cat_books, cat_colls) ==
    LET new == {bc \in local_bcs : bc.uuid \notin DOMAIN snapshot_bcs
                                   /\ bc.book_id \in DOMAIN cat_books
                                   /\ bc.collection_id \in DOMAIN cat_colls}
        rec(bc) == [uuid |-> bc.uuid,
                    book_uuid |-> cat_books[bc.book_id].uuid,
                    collection_uuid |-> cat_colls[bc.collection_id].uuid,
                    added_at |-> to_timestamp(bc.added_at),
                    updated_at |-> IF bc.updated_at = NULL THEN to_timestamp(bc.added_at)
                                   ELSE to_timestamp(bc.updated_at),
                    deleted_at |-> to_opt_timestamp(bc.deleted_at)]
    IN  [u \in DOMAIN snapshot_bcs \cup {bc.uuid : bc \in new} |->
            IF u \in DOMAIN snapshot_bcs THEN snapshot_bcs[u]
            ELSE rec(CHOOSE bc \in new : bc.uuid = u)]

merge_book_collections(st, order) ==
    LET local_bcs == st.cat.book_collections
        local_bc_uuids == {bc.uuid : bc \in local_bcs}
    IN  [st EXCEPT !.cat.book_collections =
                        merge_book_collections_download(local_bcs, order,
                            st.snapshot.book_collections, local_bc_uuids,
                            st.cat.books, st.cat.collections),
                   !.snapshot.book_collections =
                        merge_book_collections_upload(@, local_bcs,
                            st.cat.books, st.cat.collections)]

\* ------------------------------------------------------------------------
\* sync/merge.rs: bookmarks
\* ------------------------------------------------------------------------
update_local_bookmark(row, remote) ==
    [row EXCEPT !.name = remote.name,
                !.updated_at = from_timestamp(remote.updated_at),
                !.deleted_at = from_opt_timestamp(remote.deleted_at)]

insert_local_bookmark(rows, remote, book_id) ==
    Append(rows, [uuid |-> remote.uuid,
                  book_id |-> book_id,
                  name |-> remote.name,
                  created_at |-> from_timestamp(remote.created_at),
                  updated_at |-> from_timestamp(remote.updated_at),
                  deleted_at |-> NULL])

bookmark_to_remote(bookmark, book_uuid) ==
    [uuid |-> bookmark.uuid,
     book_uuid |-> book_uuid,
     name |-> bookmark.name,
     created_at |-> to_timestamp(bookmark.created_at),
     updated_at |-> IF bookmark.updated_at = NULL THEN to_timestamp(bookmark.created_at)
                    ELSE to_timestamp(bookmark.updated_at),
     deleted_at |-> to_opt_timestamp(bookmark.deleted_at)]

\* bookmarks.updated_at is nullable: local_ts is 0 for NULL.
bookmark_local_ts(bookmark) ==
    IF bookmark.updated_at = NULL THEN 0 ELSE to_timestamp(bookmark.updated_at)

\* The download loop without the insert of a bookmark the device lacks.
merge_bookmarks_remote_no_insert(rows, uuid, remote_bm, local_bookmarks, cat_books, strategy) ==
    LET lid == IdByUuid(local_bookmarks, uuid) IN
    IF lid # 0
    THEN LET local_bm == local_bookmarks[lid]
             action == resolve_conflict(strategy,
                            bookmark_local_ts(local_bm),
                            remote_bm.updated_at,
                            remote_bm.deleted_at # NULL,
                            local_bm.deleted_at # NULL)
         IN  IF action = "UseRemote"
             THEN [rows EXCEPT ![lid] = update_local_bookmark(@, remote_bm)]
             ELSE rows
    ELSE rows

\* One iteration of the loop over the remote bookmarks (merge.rs 370-399).
merge_bookmarks_remote(rows, uuid, remote_bm, local_bookmarks, cat_books, strategy) ==
    LET lid == IdByUuid(local_bookmarks, uuid) IN
    IF lid # 0
    THEN LET local_bm == local_bookmarks[lid]
             action == resolve_conflict(strategy,
                            bookmark_local_ts(local_bm),
                            remote_bm.updated_at,
                            remote_bm.deleted_at # NULL,
                            local_bm.deleted_at # NULL)
         IN  IF action = "UseRemote"
             THEN [rows EXCEPT ![lid] = update_local_bookmark(@, remote_bm)]
             ELSE rows
    ELSE IF remote_bm.deleted_at = NULL
    THEN LET book_id == find_book_id_by_uuid(cat_books, remote_bm.book_uuid)
         IN  IF book_id # 0 THEN insert_local_bookmark(rows, remote_bm, book_id)
             ELSE rows
    ELSE rows

RECURSIVE merge_bookmarks_download(_, _, _, _, _, _)
merge_bookmarks_download(rows, order, remote_bms, local_bookmarks, cat_books, strategy) ==
    IF order = <<>> THEN rows
    ELSE merge_bookmarks_download(
            merge_bookmarks_remote(rows, Head(order), remote_bms[Head(order)],
                                   local_bookmarks, cat_books, strategy),
            Tail(order), remote_bms, local_bookmarks, cat_books, strategy)

RECURSIVE merge_bookmarks_upload(_, _, _, _, _)
merge_bookmarks_upload(snapshot_bms, local_bookmarks, k, cat_books, last_sync_at) ==
    IF k > Len(local_bookmarks) THEN snapshot_bms
    ELSE LET local_bm == local_bookmarks[k]
             uuid == local_bm.uuid
             local_ts == bookmark_local_ts(local_bm)
             put == /\ local_bm.book_id \in DOMAIN cat_books
                    /\ IF uuid \in DOMAIN snapshot_bms
                       THEN local_ts > snapshot_bms[uuid].updated_at /\ local_ts > last_sync_at
                       ELSE TRUE
         IN  merge_bookmarks_upload(
                IF put
                THEN (uuid :> bookmark_to_remote(local_bm, cat_books[local_bm.book_id].uuid))
                        @@ snapshot_bms
                ELSE snapshot_bms,
                local_bookmarks, k + 1, cat_books, last_sync_at)

merge_bookmarks(st, order, last_sync_at, strategy) ==
    LET local_bookmarks == st.cat.bookmarks
    IN  [st EXCEPT !.cat.bookmarks =
                        merge_bookmarks_download(local_bookmarks, order,
                            st.snapshot.bookmarks, local_bookmarks, st.cat.books, strategy),
                   !.snapshot.bookmarks =
                        merge_bookmarks_upload(@, local_bookmarks, 1, st.cat.books, last_sync_at)]

\* ------------------------------------------------------------------------
\* sync/merge.rs: book_settings
\* ------------------------------------------------------------------------
\* One iteration of the download loop (merge.rs 587-626).
\* The INSERT names no updated_at: the column takes its default, the time of
\* the insert t.
merge_book_settings_remote(rows, uuid, remote_bs, local_bs_uuids, cat_books, t) ==
    IF remote_bs.deleted_at # NULL THEN rows
    ELSE IF uuid \in local_bs_uuids THEN rows
    ELSE LET book_id == IdByUuid(cat_books, remote_bs.book_uuid)
         IN  IF book_id = 0 THEN rows
             ELSE IF \E i \in DOMAIN rows : rows[i].book_id = book_id THEN rows
             ELSE Append(rows, [uuid |-> uuid,
                                book_id |-> book_id,
                                value |-> remote_bs.value,
                                updated_at |-> NaiveUtc(t),
                                deleted_at |-> NULL])

RECURSIVE merge_book_settings_download(_, _, _, _, _, _)
merge_book_settings_download(rows, order, remote_bss, local_bs_uuids, cat_books, t) ==
    IF order = <<>> THEN rows
    ELSE merge_book_settings_download(
            merge_book_settings_remote(rows, Head(order), remote_bss[Head(order)],
                                       local_bs_uuids, cat_books, t),
            Tail(order), remote_bss, local_bs_uuids, cat_books, t)

\* The upload loop (merge.rs 629-653).
merge_book_settings_upload(snapshot_bss, local_settings, cat_books) ==
    LET new == {i \in DOMAIN local_settings :
                    /\ local_settings[i].uuid \notin DOMAIN snapshot_bss
                    /\ local_settings[i].book_id \in DOMAIN cat_books}
        rec(bs) == [uuid |-> bs.uuid,
                    book_uuid |-> cat_books[bs.book_id].uuid,
                    value |-> bs.value,
                    updated_at |-> to_timestamp(bs.updated_at),
                    deleted_at |-> to_opt_timestamp(bs.deleted_at)]
    IN  [u \in DOMAIN snapshot_bss \cup {local_settings[i].uuid : i \in new} |->
            IF u \in DOMAIN snapshot_bss THEN snapshot_bss[u]
            ELSE rec(local_settings[IdByUuid(local_settings, u)])]

merge_book_settings(st, order, t) ==
    LET local_settings == st.cat.book_settings
        local_bs_uuids == {local_settings[i].uuid : i \in DOMAIN local_settings}
    IN  [st EXCEPT !.cat.book_settings =
                        merge_book_settings_download(local_settings, order,
                            st.snapshot.book_settings, local_bs_uuids, st.cat.books, t),
                   !.snapshot.book_settings =
                        merge_book_settings_upload(@, local_settings, st.cat.books)]

\* ------------------------------------------------------------------------
\* sync/merge.rs: app settings
\* ------------------------------------------------------------------------
\* The map of the non-"sync." keys is a set holding one value, the time of
\* the edit that produced the document (0: the defaults); the snapshot of
\* SyncSnapshot::new holds the empty map.
merge_app_settings(st) ==
    LET local_settings == st.cat.app_settings
        local_updated_at == local_settings.updated_at
        remote_updated_at == st.snapshot.app_settings_updated_at
    IN  IF st.snapshot.app_settings = {} \/ local_updated_at > remote_updated_at
        THEN [st EXCEPT !.snapshot.app_settings = local_settings.value,
                        !.snapshot.app_settings_updated_at = local_updated_at]
        ELSE IF remote_updated_at > 0
        THEN [st EXCEPT !.cat.app_settings.value = st.snapshot.app_settings]
        ELSE st

\* ------------------------------------------------------------------------
\* sync/merge.rs: MergeEngine::sync
\* ------------------------------------------------------------------------
\* The passes of MergeEngine::sync in their order, each run when its option
\* is on and no earlier pass returned an error (the ? operator).
books_pass(options, st, order, last_sync_at, strategy) ==
    IF options.sync_books \/ options.sync_progress
    THEN merge_books(st, order, last_sync_at, strategy, options.sync_books)
    ELSE st

collections_pass(options, st, order, last_sync_at, strategy) ==
    IF options.sync_books /\ ~st.err
    THEN merge_collections(st, order, last_sync_at, strategy)
    ELSE st

book_collections_pass(options, st, order) ==
    IF options.sync_books /\ ~st.err THEN merge_book_collections(st, order) ELSE st

bookmarks_pass(options, st, order, last_sync_at, strategy) ==
    IF options.sync_progress /\ ~st.err
    THEN merge_bookmarks(st, order, last_sync_at, strategy)
    ELSE st

book_settings_pass(options, st, order, t) ==
    IF options.sync_progress /\ ~st.err THEN merge_book_settings(st, order, t) ELSE st

app_settings_pass(options, st) ==
    IF options.sync_settings /\ ~st.err THEN merge_app_settings(st) ELSE st

\* Snapshot metadata and the sync_state row, written when every pass
\* returned Ok.
finish_sync(st, device_id, t) ==
    IF st.err THEN st
    ELSE [st EXCEPT !.snapshot.last_modified_by = device_id,
                    !.snapshot.last_modified_at = t,
                    !.cat.sync_state.last_sync_at = NaiveUtc(t),
                    !.cat.sync_state.last_sync_device = device_id]

\* o gives the iteration order of each map of the downloaded snapshot.  The
\* result holds the catalog as written (no transaction is opened: the writes
\* of the passes before a failing statement stay), the snapshot to upload
\* and whether an error was returned.
MergeEngine_sync(device_id, strategy, options, cat, remote, t, o) ==
    finish_sync(
      app_settings_pass(options,
        book_settings_pass(options,
          bookmarks_pass(options,
            book_collections_pass(options,
              collections_pass(options,
                books_pass(options, [cat |-> cat, snapshot |-> remote, err |-> FALSE],
                           o.books, to_opt_timestamp(cat.sync_state.last_sync_at), strategy),
                o.collections, to_opt_timestamp(cat.sync_state.last_sync_at), strategy),
              o.book_collections),
            o.bookmarks, to_opt_timestamp(cat.sync_state.last_sync_at), strategy),
          o.book_settings, t)),
      device_id, t)

IterationOrders(remote) ==
    {[books |-> ob, collections |-> oc, book_collections |-> oj,
      bookmarks |-> om, book_settings |-> os] :
        ob \in Orders(DOMAIN remote.books),
        oc \in Orders(DOMAIN remote.collections),
        oj \in Orders(DOMAIN remote.book_collections),
        om \in Orders(DOMAIN remote.bookmarks),
        os \in Orders(DOMAIN remote.book_settings)}

\* ------------------------------------------------------------------------
\* auth/types.rs, auth/storage.rs
\* ------------------------------------------------------------------------
\* An Option is the empty sequence (None) or a sequence of one value (Some).
None == <<>>

Some(v) == <<v>>

\* The vault entry of a device: stored says whether the vault holds a token
\* at all, refresh_token is the Option<String> of the token, expires_at is
\* the Option<i64> of the expiry (in the unit of the clock).
NoToken == [stored |-> FALSE, refresh_token |-> None, expires_at |-> None]

AuthToken(refresh_token, expires_at) ==
    [stored |-> TRUE, refresh_token |-> refresh_token, expires_at |-> expires_at]

\* AuthToken::new: no refresh token, no expiry.
AuthToken_new == AuthToken(None, None)

\* The "60 second buffer" of is_expired.
ExpiryBuffer == 60

\* The expires_in of Google's token responses.
ExpiresIn == 3600

\* The width of i64, scaled down: expires_at is an i64 and is_expired
\* subtracts the buffer from it.
I64Bits == 16

I64_MIN == 0 - 2^(I64Bits - 1)

I64_MAX == 2^(I64Bits - 1) - 1

\* a - b in i64 without overflow checks (a release build).
wrapping_sub(a, b) ==
    LET r == a - b
    IN  IF r < I64_MIN THEN r + 2^I64Bits
        ELSE IF r > I64_MAX THEN r - 2^I64Bits
        ELSE r

\* Whether a - b overflows, on which a build with overflow checks panics.
sub_overflows(a, b) == a - b < I64_MIN \/ a - b > I64_MAX

is_expired(t, time) ==
    IF t.expires_at = None THEN FALSE
    ELSE time >= wrapping_sub(t.expires_at[1], ExpiryBuffer)

can_refresh(t) == t.refresh_token # None /\ t.refresh_token[1] # ""

\* A token is authenticated only while its access token is valid.
is_authenticated_valid_only(t) == ~is_expired(t, now)

is_authenticated(t) == ~is_expired(t, now) \/ can_refresh(t)

\* AuthStatus::from_token: the clock is read once for is_authenticated and
\* once more for needs_refresh; at is the second reading.
AuthStatus_from_token(t, is_auth, at) ==
    [is_authenticated |-> is_auth,
     needs_refresh |-> is_expired(t, at) /\ can_refresh(t)]

\* get_auth_status(app).is_authenticated: false when load_token finds nothing.
get_auth_status(d) == IF token[d].stored THEN is_authenticated(token[d]) ELSE FALSE

\* refresh_token_internal on success: the refresh token is kept.
refresh_token_internal(t, expires_in) ==
    AuthToken(t.refresh_token,
              IF expires_in = None THEN None ELSE Some(now + expires_in[1]))

\* What sync_now or import_book_from_archive gave back: code is "Ok" or the
\* ErrorCode, errors the SyncResult.errors (the hashes whose upload failed),
\* detail the title named by a DuplicateEntry or the id of the imported
\* book, args the arguments of the import, success the SyncResult.success
\* of a sync_now that returns a SyncResult (FALSE where none is returned).
NoArgs == [hash |-> NoHash, collection_id |-> 0, backup_files |-> FALSE]

NoReturn == [command |-> "none", code |-> "none", errors |-> {}, detail |-> 0,
             args |-> NoArgs, success |-> FALSE]

Returned(command, code, errors, detail) ==
    [command |-> command, code |-> code, errors |-> errors, detail |-> detail,
     args |-> NoArgs, success |-> FALSE]

\* SyncResult::empty(), of which the model keeps success and errors.
SyncResult_empty == [success |-> TRUE, errors |-> {}]

\* sync_now returns Ok(result).
Ok_SyncResult(result) ==
    [Returned("sync_now", "Ok", result.errors, 0) EXCEPT !.success = result.success]

\* ------------------------------------------------------------------------
\* database/operations.rs and protocol.rs: the entries of an archive
\* ------------------------------------------------------------------------
\* A String is the sequence of its characters.  str::to_lowercase on the
\* characters of the names below.
to_lowercase(s) ==
    [i \in DOMAIN s |->
        CASE s[i] = "P" -> "p" [] s[i] = "N" -> "n" [] s[i] = "G" -> "g"
          [] s[i] = "M" -> "m" [] s[i] = "A" -> "a" [] s[i] = "C" -> "c"
          [] s[i] = "O" -> "o" [] s[i] = "S" -> "s" [] s[i] = "X" -> "x"
          [] OTHER -> s[i]]

starts_with(s, prefix) ==
    Len(s) >= Len(prefix) /\ SubSeq(s, 1, Len(prefix)) = prefix

ends_with(s, suffix) ==
    Len(s) >= Len(suffix) /\ SubSeq(s, Len(s) - Len(suffix) + 1, Len(s)) = suffix

contains(s, pat) ==
    \E i \in 1..(Len(s) - Len(pat) + 1) : SubSeq(s, i, i + Len(pat) - 1) = pat

\* Vec<String>::sort of a list of distinct names: String's Ord compares the
\* bytes of the characters.
sort(names) ==
    LET byte(c) ==
            CASE c = "." -> 46 [] c = "/" -> 47 [] c = "1" -> 49 [] c = "2" -> 50
              [] c = "3" -> 51 [] c = "A" -> 65 [] c = "C" -> 67 [] c = "G" -> 71
              [] c = "M" -> 77 [] c = "N" -> 78 [] c = "O" -> 79 [] c = "P" -> 80
              [] c = "S" -> 83 [] c = "X" -> 88 [] c = "_" -> 95 [] c = "d" -> 100
              [] c = "f" -> 102 [] c = "g" -> 103 [] c = "h" -> 104 [] c = "i" -> 105
              [] c = "j" -> 106 [] c = "n" -> 110 [] c = "p" -> 112 [] c = "r" -> 114
              [] c = "t" -> 116 [] c = "x" -> 120
        RECURSIVE str_lt(_, _)
        str_lt(a, b) ==
            IF b = <<>> THEN FALSE
            ELSE IF a = <<>> THEN TRUE
            ELSE IF byte(Head(a)) # byte(Head(b)) THEN byte(Head(a)) < byte(Head(b))
            ELSE str_lt(Tail(a), Tail(b))
    IN  CHOOSE o \in Orders(Range(names)) :
            \A i, j \in DOMAIN o : i < j => str_lt(o[i], o[j])

\* operations.rs is_image_file.
is_image_file(name) ==
    \/ ends_with(to_lowercase(name), <<".", "j", "p", "g">>)
    \/ ends_with(to_lowercase(name), <<".", "j", "p", "e", "g">>)
    \/ ends_with(to_lowercase(name), <<".", "p", "n", "g">>)

\* protocol.rs is_image_file.
protocol_is_image_file(name) ==
    \/ ends_with(to_lowercase(name), <<".", "j", "p", "g">>)
    \/ ends_with(to_lowercase(name), <<".", "j", "p", "e", "g">>)
    \/ ends_with(to_lowercase(name), <<".", "p", "n", "g">>)
    \/ ends_with(to_lowercase(name), <<".", "g", "i", "f">>)
    \/ ends_with(to_lowercase(name), <<".", "w", "e", "b", "p">>)

\* ZipFile::is_dir: the name of the entry ends in '/'.
is_dir(file) == ends_with(file.name, <<"/">>)

\* The names of the entries kept by the loops of calculate_zip_hash and
\* count_zip_images, in the order of the archive.
operations_image_files(archive) ==
    LET kept == SelectSeq(archive,
                    LAMBDA file : /\ ~is_dir(file)
                                  /\ is_image_file(file.name)
                                  /\ ~starts_with(file.name, <<".">>)
                                  /\ ~contains(file.name, <<"/", ".">>))
    IN  [i \in DOMAIN kept |-> kept[i].name]

count_zip_images(archive) == Len(operations_image_files(archive))

\* ZipArchive::by_name.
by_name(archive, name) ==
    archive[CHOOSE i \in DOMAIN archive : archive[i].name = name]

\* Sha256 as a digest without collisions: the digest stands for the bytes
\* that were fed to the hasher.
Sha256(bytes) == [sha256 |-> bytes]

\* calculate_zip_hash: the image names sorted, then the payloads fed to the
\* hasher in that order (the names are not fed to it).
calculate_zip_hash(archive) ==
    LET RECURSIVE hasher_update(_, _)
        hasher_update(bytes, image_files) ==
            IF image_files = <<>> THEN bytes
            ELSE hasher_update(bytes \o by_name(archive, Head(image_files)).data,
                               Tail(image_files))
    IN  Sha256(hasher_update(<<>>, sort(operations_image_files(archive))))

\* get_zip_image_list; on the names below natord::compare orders as the
\* bytes do.
get_zip_image_list(archive) ==
    LET kept == SelectSeq(archive,
                    LAMBDA file : /\ ~is_dir(file)
                                  /\ protocol_is_image_file(file.name)
                                  /\ ~starts_with(file.name, <<".">>)
                                  /\ ~contains(file.name, <<"/", ".">>)
                                  /\ ~contains(file.name,
                                        <<"_", "_", "M", "A", "C", "O", "S", "X">>))
    IN  sort([i \in DOMAIN kept |-> kept[i].name])

\* The names of the entries of the archives: 1.jpg, 2.PNG, 3.gif, .h.jpg,
\* d/.t.png, __MACOSX/1.jpg, r.txt and the directory d/.
EntryNames ==
    {<<"1", ".", "j", "p", "g">>,
     <<"2", ".", "P", "N", "G">>,
     <<"3", ".", "g", "i", "f">>,
     <<".", "h", ".", "j", "p", "g">>,
     <<"d", "/", ".", "t", ".", "p", "n", "g">>,
     <<"_", "_", "M", "A", "C", "O", "S", "X", "/", "1", ".", "j", "p", "g">>,
     <<"r", ".", "t", "x", "t">>,
     <<"d", "/">>}

\* The payloads of the entries (a directory entry has none).
Payloads == {<<1>>, <<2>>}

MaxEntries == 2

\* The archives: up to MaxEntries entries, no name twice.
ArchiveInputs ==
    LET Entries == {[name |-> n, data |-> IF ends_with(n, <<"/">>) THEN <<>> ELSE p] :
                        n \in EntryNames, p \in Payloads}
        RECURSIVE ArchivesOfLen(_)
        ArchivesOfLen(n) ==
            IF n = 0 THEN {<<>>}
            ELSE {Append(a, e) : a \in ArchivesOfLen(n - 1), e \in Entries}
    IN  {a \in UNION {ArchivesOfLen(n) : n \in 0..MaxEntries} :
            \A i, j \in DOMAIN a : a[i].name = a[j].name => i = j}

\* Nothing is being computed.
NoCalc == [stage |-> "none"]

\* ------------------------------------------------------------------------
\* protocol.rs: the cache of image lists
\* ------------------------------------------------------------------------
\* The cache is a HashMap from book id to image list (None and the empty map
\* behave alike: get_or_insert_with).  It keeps no order of use.
MAX_CACHE_SIZE == 10

\* The requests whose get_cached_image_list can be running at once.
Req == {1, 2}

IdleReq == [pc |-> "idle", book_id |-> 0, list |-> 0]

\* used is the order in which the cached books were last looked up or
\* stored, the most recent last (the code keeps no such record; it is kept
\* here to name the least recently used entry); served counts the calls.
NoPageRequests == [req |-> [r \in Req |-> IdleReq], used |-> <<>>, served |-> 0]

touch(used, book_id) == SelectSeq(used, LAMBDA b : b # book_id) \o <<book_id>>

\* The keys map.keys().next() can give: any key, the iteration order of a
\* HashMap being unspecified; 0 stands for "no eviction".
eviction_candidates(map) ==
    IF Cardinality(DOMAIN map) >= MAX_CACHE_SIZE THEN DOMAIN map ELSE {0}

\* The write section of get_cached_image_list: the key is removed if the
\* map is full, then the list is inserted.
cache_store(map, book_id, list, key) ==
    [b \in (DOMAIN map \ {key}) \cup {book_id} |-> IF b = book_id THEN list ELSE map[b]]

used_after_store(used, book_id, key) ==
    touch(SelectSeq(used, LAMBDA b : b # key), book_id)

\* ------------------------------------------------------------------------
\* Initial state: fresh installs, empty Drive area
\* ------------------------------------------------------------------------
\* An invocation of sync_now: its position (pc), its device and options, the
\* snapshot it downloaded (remote), the catalog as it was when its merge
\* began (pre), the snapshot its merge returned and the Drive file id it
\* holds (0: none).
IdleInv ==
    [pc |-> "idle", dev |-> "none", options |-> SyncOptions(FALSE, FALSE, FALSE),
     remote |-> SyncSnapshot_new, snapshot |-> SyncSnapshot_new,
     pre |-> EmptyCatalog, file_id |-> 0, result |-> SyncResult_empty]

Init ==
    /\ now = 1
    /\ books = [d \in Dev |-> <<>>]
    /\ collections = [d \in Dev |-> <<>>]
    /\ book_collections = [d \in Dev |-> {}]
    /\ bookmarks = [d \in Dev |-> <<>>]
    /\ book_settings = [d \in Dev |-> <<>>]
    /\ sync_state = [d \in Dev |-> EmptyCatalog.sync_state]
    /\ app_settings = [d \in Dev |-> EmptyCatalog.app_settings]
    /\ drive_files = <<>>
    /\ drive_blobs = {}
    /\ inv = [i \in Inv |-> IdleInv]
    /\ token = [d \in Dev |-> AuthToken_new]
    /\ library_dir = [d \in Dev |-> {}]
    /\ returned = [d \in Dev |-> NoReturn]
    /\ IMAGE_LIST_CACHE = [d \in Dev |-> <<>>]
    /\ page_requests = [d \in Dev |-> NoPageRequests]
    /\ calc = NoCalc

Tick == now < MaxTime /\ now' = now + 1

LiveBooks(d) == {i \in DOMAIN books[d] : books[d][i].deleted_at = NULL}

\* ------------------------------------------------------------------------
\* database/operations.rs and commands/library.rs: books
\* ------------------------------------------------------------------------
\* An import without the duplicate check.
find_book_by_hash_unchecked(rows, h) == 0

find_book_by_hash(rows, h) ==
    LET S == {i \in DOMAIN rows : rows[i].file_hash = h /\ rows[i].deleted_at = NULL}
    IN  IF S = {} THEN 0 ELSE CHOOSE i \in S : \A j \in S : i <= j

find_deleted_book_by_hash(rows, h) ==
    LET S == {i \in DOMAIN rows : rows[i].file_hash = h /\ rows[i].deleted_at # NULL}
    IN  IF S = {} THEN 0 ELSE CHOOSE i \in S : \A j \in S : i <= j

restore_deleted_book(row, new_file_path, t) ==
    [row EXCEPT !.deleted_at = NULL, !.file_path = new_file_path, !.updated_at = t]

\* count_archive_images: the number of images of the archive with content
\* hash h; an archive without images is rejected before anything is stored.
count_archive_images(h) == 2

\* books.current_page of a row inserted without it (the column default).
DefaultCurrentPage == 1

\* import_book_from_archive of an archive with content hash h kept at
\* FilePath(h), managed storage off, no collection, when it succeeds (what
\* it returns is not recorded).  A live duplicate gives DuplicateEntry and a
\* taken file_path a database error: no row changes.
ImportBook(d, h) ==
    /\ Tick
    /\ find_book_by_hash(books[d], h) = 0
    /\ LET deleted == find_deleted_book_by_hash(books[d], h) IN
       IF deleted # 0
       THEN /\ \A i \in DOMAIN books[d] : i # deleted => books[d][i].file_path # FilePath(h)
            /\ books' = [books EXCEPT ![d][deleted] = restore_deleted_book(@, FilePath(h), NaiveUtc(now))]
       ELSE /\ \A i \in DOMAIN books[d] : books[d][i].file_path # FilePath(h)
            /\ books' = [books EXCEPT ![d] = Append(@,
                    [uuid |-> now,
                     file_path |-> FilePath(h),
                     file_hash |-> h,
                     title |-> 0,
                     current_page |-> DefaultCurrentPage,
                     total_pages |-> count_archive_images(h),
                     page |-> 0,
                     updated_at |-> NaiveUtc(now),
                     deleted_at |-> NULL])]
    /\ UNCHANGED <<IMAGE_LIST_CACHE, page_requests, calc, token, library_dir, returned, collections, book_collections, bookmarks, book_settings,
                   sync_state, app_settings, drive_files, drive_blobs, inv>>

\* A path in the managed library directory: library_dir.join(filename), or
\* "{stem}_{counter}.{ext}" when counter > 0.
LibraryPath(filename, counter) ==
    [kind |-> "library", filename |-> filename, counter |-> counter]

\* The destination of the copy: the first of these paths that does not exist.
dest_path(dir, filename) ==
    LibraryPath(filename,
                CHOOSE c \in 0..Cardinality(dir) :
                    /\ LibraryPath(filename, c) \notin dir
                    /\ \A b \in 0..(c - 1) : LibraryPath(filename, b) \in dir)

\* The archives a user imports: two of different content with the same
\* file name (in different folders), each kept at FilePath(hash); path names
\* the place of the file by the content first kept there.
ArchiveFiles == {[hash |-> "H", filename |-> "a", path |-> "H"],
                 [hash |-> "G", filename |-> "a", path |-> "G"]}

\* The same, and the file of the first archive overwritten in place with
\* the content of the second.
ReplacedArchiveFiles == ArchiveFiles \cup {[hash |-> "G", filename |-> "a", path |-> "H"]}

\* Option<i32> of a collection id: NULL for None, else the id.
CollectionIds == 0..2

\* import_book_from_archive(archive_path, collection_id, backup_files, ...):
\* the duplicate check, the copy into the library directory when
\* backup_files is on, restore_deleted_book or create_book (Err when the
\* file_path is taken: UNIQUE(books.file_path)), then add_book_to_collection
\* (Err when the collection row does not exist or the pair is linked).
\* Every statement is committed on its own and nothing is undone on Err.
\* An import that inserts its row into a books table without
\* UNIQUE(file_path).
ImportBookFromArchive_no_unique(d, archive, collection_id, backup_files) ==
    /\ Tick
    /\ find_book_by_hash(books[d], archive.hash) = 0
    /\ LET effective_path == IF backup_files
                             THEN dest_path(library_dir[d], archive.filename)
                             ELSE FilePath(archive.path)
       IN  /\ library_dir' = IF backup_files
                             THEN [library_dir EXCEPT ![d] = @ \cup {effective_path}]
                             ELSE library_dir
           /\ books' = [books EXCEPT ![d] = Append(@,
                    [uuid |-> now,
                     file_path |-> effective_path,
                     file_hash |-> archive.hash,
                     title |-> 0,
                     current_page |-> DefaultCurrentPage,
                     total_pages |-> count_archive_images(archive.hash),
                     page |-> 0,
                     updated_at |-> NaiveUtc(now),
                     deleted_at |-> NULL])]
           /\ returned' = [returned EXCEPT ![d] =
                    [Returned("import_book_from_archive", "Ok", {}, Len(books[d]) + 1) EXCEPT
                        !.args = [hash |-> archive.hash,
                                  collection_id |-> collection_id,
                                  backup_files |-> backup_files]]]
    /\ UNCHANGED <<IMAGE_LIST_CACHE, page_requests, calc, token, collections, book_collections, bookmarks, book_settings,
                   sync_state, app_settings, drive_files, drive_blobs, inv>>

ImportBookFromArchive(d, archive, collection_id, backup_files) ==
    /\ Tick
    /\ LET book_hash == archive.hash
           existing_book == find_book_by_hash(books[d], book_hash)
           deleted == find_deleted_book_by_hash(books[d], book_hash)
           effective_path == IF backup_files
                             THEN dest_path(library_dir[d], archive.filename)
                             ELSE FilePath(archive.path)
           copied == IF backup_files THEN library_dir[d] \cup {effective_path}
                                     ELSE library_dir[d]
           path_free == \A i \in DOMAIN books[d] :
                            i # deleted => books[d][i].file_path # effective_path
           book_id == IF deleted # 0 THEN deleted ELSE Len(books[d]) + 1
           stored == IF deleted # 0
                     THEN [books[d] EXCEPT ![deleted] =
                                restore_deleted_book(@, effective_path, NaiveUtc(now))]
                     ELSE Append(books[d],
                            [uuid |-> now,
                             file_path |-> effective_path,
                             file_hash |-> book_hash,
                             title |-> 0,
                             current_page |-> DefaultCurrentPage,
                             total_pages |-> count_archive_images(book_hash),
                             page |-> 0,
                             updated_at |-> NaiveUtc(now),
                             deleted_at |-> NULL])
           link_ok == /\ collection_id \in DOMAIN collections[d]
                      /\ ~\E bc \in book_collections[d] :
                            bc.book_id = book_id /\ bc.collection_id = collection_id
           linked == book_collections[d] \cup
                        {[uuid |-> now,
                          book_id |-> book_id,
                          collection_id |-> collection_id,
                          added_at |-> NaiveUtc(now),
                          updated_at |-> NULL,
                          deleted_at |-> NULL]}
           Ret(code, detail) == [returned EXCEPT ![d] =
                    [Returned("import_book_from_archive", code, {}, detail) EXCEPT
                        !.args = [hash |-> book_hash,
                                  collection_id |-> collection_id,
                                  backup_files |-> backup_files]]]
       IN  IF existing_book # 0
           THEN /\ returned' = Ret("DuplicateEntry", books[d][existing_book].title)
                /\ UNCHANGED <<IMAGE_LIST_CACHE, page_requests, calc, books, book_collections, library_dir>>
           ELSE IF ~path_free
           THEN /\ library_dir' = [library_dir EXCEPT ![d] = copied]
                /\ returned' = Ret("DatabaseQueryFailed", 0)
                /\ UNCHANGED <<IMAGE_LIST_CACHE, page_requests, calc, books, book_collections>>
           ELSE IF collection_id = NULL
           THEN /\ library_dir' = [library_dir EXCEPT ![d] = copied]
                /\ books' = [books EXCEPT ![d] = stored]
                /\ returned' = Ret("Ok", book_id)
                /\ UNCHANGED book_collections
           ELSE IF ~link_ok
           THEN /\ library_dir' = [library_dir EXCEPT ![d] = copied]
                /\ books' = [books EXCEPT ![d] = stored]
                /\ returned' = Ret("DatabaseQueryFailed", 0)
                /\ UNCHANGED book_collections
           ELSE /\ library_dir' = [library_dir EXCEPT ![d] = copied]
                /\ books' = [books EXCEPT ![d] = stored]
                /\ book_collections' = [book_collections EXCEPT ![d] = linked]
                /\ returned' = Ret("Ok", book_id)
    /\ UNCHANGED <<IMAGE_LIST_CACHE, page_requests, calc, token, collections, bookmarks, book_settings, sync_state, app_settings,
                   drive_files, drive_blobs, inv>>

\* update_book with a new title (or is_favorite): updated_at is bumped.
UpdateBookTitle(d, id) ==
    /\ Tick
    /\ id \in LiveBooks(d)
    /\ books' = [books EXCEPT ![d][id] = [@ EXCEPT !.title = now, !.updated_at = NaiveUtc(now)]]
    /\ UNCHANGED <<IMAGE_LIST_CACHE, page_requests, calc, token, library_dir, returned, collections, book_collections, bookmarks, book_settings,
                   sync_state, app_settings, drive_files, drive_blobs, inv>>

\* update_book with a new current_page (sets last_read_at too): the reader
\* has reached the last page.
UpdateBookProgress(d, id) ==
    /\ Tick
    /\ id \in LiveBooks(d)
    /\ books' = [books EXCEPT ![d][id] = [@ EXCEPT !.current_page = books[d][id].total_pages,
                                                  !.page = now,
                                                  !.updated_at = NaiveUtc(now)]]
    /\ UNCHANGED <<IMAGE_LIST_CACHE, page_requests, calc, token, library_dir, returned, collections, book_collections, bookmarks, book_settings,
                   sync_state, app_settings, drive_files, drive_blobs, inv>>

\* The page numbers a caller of update_book passes: i32, here those around
\* the pages of an archive.
PageInputs == -1..3

\* update_book(book_id, current_page: Some(current_page)): the value is
\* written as it comes, with last_read_at and updated_at.
UpdateBookPage(d, id, current_page) ==
    /\ Tick
    /\ id \in LiveBooks(d)
    /\ books' = [books EXCEPT ![d][id] = [@ EXCEPT !.current_page = current_page,
                                                  !.page = now,
                                                  !.updated_at = NaiveUtc(now)]]
    /\ UNCHANGED <<IMAGE_LIST_CACHE, page_requests, calc, token, library_dir, returned, collections, book_collections, bookmarks,
                   book_settings, sync_state, app_settings, drive_files, drive_blobs, inv>>

\* A delete_book that gives up, leaving the row live, when the blob could
\* not be deleted on Drive.
DeleteBook_needs_cloud(d, id, cloud_ok) ==
    /\ Tick
    /\ id \in LiveBooks(d)
    /\ library_dir' = [library_dir EXCEPT ![d] = @ \ {books[d][id].file_path}]
    /\ IF cloud_ok /\ get_auth_status(d) /\ ~is_expired(token[d], now)
       THEN /\ drive_blobs' = drive_blobs \ {books[d][id].file_hash}
            /\ books' = [books EXCEPT ![d][id] =
                    [@ EXCEPT !.deleted_at = NaiveUtc(now), !.updated_at = NaiveUtc(now)]]
            /\ returned' = [returned EXCEPT ![d] = Returned("delete_book", "Ok", {}, id)]
       ELSE /\ UNCHANGED <<drive_blobs, books>>
            /\ returned' = [returned EXCEPT ![d] = Returned("delete_book", "SyncFailed", {}, id)]
    /\ UNCHANGED <<IMAGE_LIST_CACHE, page_requests, calc, token, collections, book_collections, bookmarks, book_settings,
                   sync_state, app_settings, drive_files, inv>>

\* delete_book_impl: the file of the book is removed when it lies in the
\* app data directory; then comes the best-effort delete_book_file(hash) on
\* Drive, attempted when the book has a hash and the user is authenticated,
\* after a refresh of an expired token (cloud_ok says whether the Drive call
\* succeeds); then the soft delete, whatever came of the Drive call.
DeleteBook(d, id, cloud_ok) ==
    /\ Tick
    /\ id \in LiveBooks(d)
    /\ library_dir' = [library_dir EXCEPT ![d] = @ \ {books[d][id].file_path}]
    /\ \E refresh_ok \in BOOLEAN :
        LET attempt == books[d][id].file_hash # NoHash /\ get_auth_status(d)
            expired == is_expired(token[d], now)
        IN  /\ token' = IF attempt /\ expired /\ refresh_ok
                        THEN [token EXCEPT ![d] = refresh_token_internal(@, Some(ExpiresIn))]
                        ELSE token
            /\ drive_blobs' = IF attempt /\ (~expired \/ refresh_ok) /\ cloud_ok
                              THEN drive_blobs \ {books[d][id].file_hash}
                              ELSE drive_blobs
    /\ books' = [books EXCEPT ![d][id] = [@ EXCEPT !.deleted_at = NaiveUtc(now), !.updated_at = NaiveUtc(now)]]
    /\ returned' = [returned EXCEPT ![d] = Returned("delete_book", "Ok", {}, id)]
    /\ UNCHANGED <<IMAGE_LIST_CACHE, page_requests, calc, collections, book_collections, bookmarks, book_settings,
                   sync_state, app_settings, drive_files, inv>>

\* books.filename: every archive of the model has the file name "a" (see
\* ArchiveFiles), and merge copies the name with the record.
BookFilename == "a"

\* app_data_dir/books/{filename}, where download_cloud_book stores the file.
BooksPath(filename) == [kind |-> "books", filename |-> filename, counter |-> 0]

\* Path::exists of a book's file: a file of the app data directory exists
\* when library_dir holds it, a file of the user's own folders is there.
path_exists(d, path) ==
    IF path.kind \in {"library", "books"} THEN path \in library_dir[d]
    ELSE path.kind = "file"

\* download_cloud_book writing the new file_path without updated_at.
DownloadCloudBook_keep_updated_at(d, book_id, refresh_ok, download_ok) ==
    /\ Tick
    /\ book_id \in DOMAIN books[d]
    /\ books[d][book_id].file_path.kind = "cloud"
    /\ get_auth_status(d) /\ ~is_expired(token[d], now)
    /\ download_ok /\ books[d][book_id].file_hash \in drive_blobs
    /\ \A i \in DOMAIN books[d] :
            i # book_id => books[d][i].file_path # [kind |-> "books", filename |-> "a", counter |-> 0]
    /\ library_dir' = [library_dir EXCEPT ![d] =
            @ \cup {[kind |-> "books", filename |-> "a", counter |-> 0]}]
    /\ books' = [books EXCEPT ![d][book_id] =
            [@ EXCEPT !.file_path = [kind |-> "books", filename |-> "a", counter |-> 0]]]
    /\ returned' = [returned EXCEPT ![d] =
            Returned("download_cloud_book", "Ok", {}, book_id)]
    /\ UNCHANGED <<IMAGE_LIST_CACHE, page_requests, calc, token, collections, book_collections, bookmarks, book_settings,
                   sync_state, app_settings, drive_files, drive_blobs, inv>>

\* download_cloud_book(book_id).  refresh_ok and download_ok say whether the
\* token refresh and the Drive download go through; the file is written
\* before the UPDATE of the row, and stays when the UPDATE fails on
\* UNIQUE(file_path).
DownloadCloudBook(d, book_id, refresh_ok, download_ok) ==
    /\ Tick
    /\ book_id \in DOMAIN books[d]
    /\ LET book == books[d][book_id]
           expired == is_expired(token[d], now)
           target_path == BooksPath(BookFilename)
           checks == IF book.file_path.kind # "cloud" THEN "SyncFailed"
                     ELSE IF book.file_hash = NoHash THEN "SyncFailed"
                     ELSE IF ~get_auth_status(d) THEN "NotAuthenticated"
                     ELSE IF expired /\ ~can_refresh(token[d]) THEN "NotAuthenticated"
                     ELSE IF expired /\ ~refresh_ok THEN "SyncFailed"
                     ELSE "Ok"
           downloaded == checks = "Ok" /\ download_ok /\ book.file_hash \in drive_blobs
           path_free == \A i \in DOMAIN books[d] :
                            i # book_id => books[d][i].file_path # target_path
           code == IF checks # "Ok" THEN checks
                   ELSE IF ~downloaded THEN "SyncFailed"
                   ELSE IF ~path_free THEN "DatabaseError"
                   ELSE "Ok"
       IN  /\ token' = IF checks = "Ok" /\ expired
                       THEN [token EXCEPT ![d] = refresh_token_internal(@, Some(ExpiresIn))]
                       ELSE token
           /\ library_dir' = IF downloaded
                             THEN [library_dir EXCEPT ![d] = @ \cup {target_path}]
                             ELSE library_dir
           /\ books' = IF code = "Ok"
                       THEN [books EXCEPT ![d][book_id] =
                                [@ EXCEPT !.file_path = target_path,
                                          !.updated_at = NaiveUtc(now)]]
                       ELSE books
           /\ returned' = [returned EXCEPT ![d] =
                    Returned("download_cloud_book", code, {}, book_id)]
    /\ UNCHANGED <<IMAGE_LIST_CACHE, page_requests, calc, collections, book_collections, bookmarks, book_settings,
                   sync_state, app_settings, drive_files, drive_blobs, inv>>

\* The page numbers of the requests comic://localhost/book/{id}/page/{n}.
PageNumbers == 0..2

\* handle_comic_protocol for a well-formed URL: 200 with the bytes of the
\* page, or 404 (no such book, cloud-only book, no file, no such page); the
\* image list of an archive that could be opened is looked up in the cache
\* and stored there when missing (no other request running in between).
HandleComicProtocol(d, book_id, page_number) ==
    /\ LET opened == /\ book_id \in DOMAIN books[d]
                     /\ books[d][book_id].file_path.kind # "cloud"
                     /\ path_exists(d, books[d][book_id].file_path)
           status == IF ~opened THEN "404"
                     ELSE IF page_number >= count_archive_images(books[d][book_id].file_hash)
                          THEN "404"
                     ELSE "200"
           map == IMAGE_LIST_CACHE[d]
       IN  /\ returned' = [returned EXCEPT ![d] =
                    Returned("comic", status, {}, book_id)]
           /\ IF ~opened
              THEN UNCHANGED <<IMAGE_LIST_CACHE, page_requests>>
              ELSE IF book_id \in DOMAIN map
              THEN /\ UNCHANGED IMAGE_LIST_CACHE
                   /\ page_requests' = [page_requests EXCEPT
                            ![d].used = touch(@, book_id)]
              ELSE \E key \in eviction_candidates(map) :
                   /\ IMAGE_LIST_CACHE' = [IMAGE_LIST_CACHE EXCEPT ![d] =
                            cache_store(map, book_id,
                                count_archive_images(books[d][book_id].file_hash), key)]
                   /\ page_requests' = [page_requests EXCEPT
                            ![d].used = used_after_store(@, book_id, key)]
    /\ UNCHANGED <<calc, now, token, library_dir, books, collections, book_collections, bookmarks,
                   book_settings, sync_state, app_settings, drive_files, drive_blobs, inv>>

\* get_cached_image_list(book_id, ..) of request r up to the end of its read
\* section: a hit returns the cached list; after a miss the list is read
\* from the archive (list) and the request goes on to the write section.
CacheRead(d, r, book_id, list) ==
    /\ page_requests[d].req[r].pc = "idle"
    /\ IF book_id \in DOMAIN IMAGE_LIST_CACHE[d]
       THEN page_requests' = [page_requests EXCEPT
                ![d].used = touch(@, book_id),
                ![d].served = @ + 1]
       ELSE page_requests' = [page_requests EXCEPT
                ![d].req[r] = [pc |-> "missed", book_id |-> book_id, list |-> list],
                ![d].served = @ + 1]
    /\ UNCHANGED <<IMAGE_LIST_CACHE, calc, now, token, library_dir, returned, books, collections,
                   book_collections, bookmarks, book_settings, sync_state, app_settings,
                   drive_files, drive_blobs, inv>>

\* The write section of request r.
CacheWrite(d, r) ==
    /\ page_requests[d].req[r].pc = "missed"
    /\ \E key \in eviction_candidates(IMAGE_LIST_CACHE[d]) :
        /\ IMAGE_LIST_CACHE' = [IMAGE_LIST_CACHE EXCEPT ![d] =
                cache_store(@, page_requests[d].req[r].book_id,
                            page_requests[d].req[r].list, key)]
        /\ page_requests' = [page_requests EXCEPT
                ![d].req[r] = IdleReq,
                ![d].used = used_after_store(@, page_requests[d].req[r].book_id, key)]
    /\ UNCHANGED <<calc, now, token, library_dir, returned, books, collections,
                   book_collections, bookmarks, book_settings, sync_state, app_settings,
                   drive_files, drive_blobs, inv>>

\* ------------------------------------------------------------------------
\* database/operations.rs: collections, junction, bookmarks, book settings
\* ------------------------------------------------------------------------
LiveName(n) == [base |-> n, deleted |-> NULL]

\* "{name}__deleted_{timestamp}"
DeletedName(name, t) == [base |-> name.base, deleted |-> t]

LiveCollections(d) == {i \in DOMAIN collections[d] : collections[d][i].deleted_at = NULL}

\* create_collection; a taken name violates UNIQUE(name): no row changes.
CreateCollection(d, n) ==
    /\ Tick
    /\ \A i \in DOMAIN collections[d] : collections[d][i].name # LiveName(n)
    /\ collections' = [collections EXCEPT ![d] = Append(@,
            [uuid |-> now,
             name |-> LiveName(n),
             description |-> 0,
             updated_at |-> NaiveUtc(now),
             deleted_at |-> NULL])]
    /\ UNCHANGED <<IMAGE_LIST_CACHE, page_requests, calc, token, library_dir, returned, books, book_collections, bookmarks, book_settings,
                   sync_state, app_settings, drive_files, drive_blobs, inv>>

\* update_collection with a new description.
UpdateCollection(d, id) ==
    /\ Tick
    /\ id \in LiveCollections(d)
    /\ collections' = [collections EXCEPT ![d][id] =
            [@ EXCEPT !.description = now, !.updated_at = NaiveUtc(now)]]
    /\ UNCHANGED <<IMAGE_LIST_CACHE, page_requests, calc, token, library_dir, returned, books, book_collections, bookmarks, book_settings,
                   sync_state, app_settings, drive_files, drive_blobs, inv>>

\* update_collection with a new name; a name another row holds violates
\* UNIQUE(name): no row changes. The row is found by id alone, deleted or not.
RenameCollection(d, id, n) ==
    /\ Tick
    /\ id \in DOMAIN collections[d]
    /\ \A i \in DOMAIN collections[d] : i # id => collections[d][i].name # LiveName(n)
    /\ collections' = [collections EXCEPT ![d][id] =
            [@ EXCEPT !.name = LiveName(n), !.updated_at = NaiveUtc(now)]]
    /\ UNCHANGED <<IMAGE_LIST_CACHE, page_requests, calc, token, library_dir, returned, books, book_collections, bookmarks, book_settings,
                   sync_state, app_settings, drive_files, drive_blobs, inv>>

\* delete_collection without the rewrite of the name.
DeleteCollection_keep_name(d, id) ==
    /\ Tick
    /\ id \in LiveCollections(d)
    /\ collections' = [collections EXCEPT ![d][id] =
            [@ EXCEPT !.deleted_at = NaiveUtc(now),
                      !.updated_at = NaiveUtc(now)]]
    /\ UNCHANGED <<IMAGE_LIST_CACHE, page_requests, calc, token, library_dir, returned, books, book_collections, bookmarks, book_settings,
                   sync_state, app_settings, drive_files, drive_blobs, inv>>

DeleteCollection(d, id) ==
    /\ Tick
    /\ id \in LiveCollections(d)
    /\ collections' = [collections EXCEPT ![d][id] =
            [@ EXCEPT !.name = DeletedName(@, now),
                      !.deleted_at = NaiveUtc(now),
                      !.updated_at = NaiveUtc(now)]]
    /\ UNCHANGED <<IMAGE_LIST_CACHE, page_requests, calc, token, library_dir, returned, books, book_collections, bookmarks, book_settings,
                   sync_state, app_settings, drive_files, drive_blobs, inv>>

AddBookToCollection(d, book_id, collection_id) ==
    /\ Tick
    /\ book_id \in LiveBooks(d)
    /\ collection_id \in LiveCollections(d)
    /\ ~\E bc \in book_collections[d] :
            bc.book_id = book_id /\ bc.collection_id = collection_id
    /\ book_collections' = [book_collections EXCEPT ![d] = @ \cup
            {[uuid |-> now,
              book_id |-> book_id,
              collection_id |-> collection_id,
              added_at |-> NaiveUtc(now),
              updated_at |-> NULL,
              deleted_at |-> NULL]}]
    /\ UNCHANGED <<IMAGE_LIST_CACHE, page_requests, calc, token, library_dir, returned, books, collections, bookmarks, book_settings,
                   sync_state, app_settings, drive_files, drive_blobs, inv>>

\* remove_book_from_collection: the junction rows are deleted, not tombstoned.
RemoveBookFromCollection(d, book_id, collection_id) ==
    /\ Tick
    /\ \E bc \in book_collections[d] :
            bc.book_id = book_id /\ bc.collection_id = collection_id
    /\ book_collections' = [book_collections EXCEPT ![d] =
            {bc \in @ : ~(bc.book_id = book_id /\ bc.collection_id = collection_id)}]
    /\ returned' = [returned EXCEPT ![d] =
            Returned("remove_book_from_collection", "Ok", {}, book_id)]
    /\ UNCHANGED <<IMAGE_LIST_CACHE, page_requests, calc, token, library_dir, books, collections, bookmarks, book_settings,
                   sync_state, app_settings, drive_files, drive_blobs, inv>>

\* update_settings_from_map: the values of the document are replaced and the
\* document is saved.  The updated_at of the document, which the merge reads,
\* is the reading of the clock at the edit; an edit takes no time, so two
\* devices can edit within the same millisecond.
SettingValues == {1, 2}

UpdateSettingsFromMap(d, v) ==
    /\ app_settings' = [app_settings EXCEPT ![d] = [value |-> {v}, updated_at |-> now]]
    /\ app_settings'[d] # app_settings[d]
    /\ UNCHANGED <<IMAGE_LIST_CACHE, page_requests, calc, now, token, library_dir, returned, books, collections, book_collections,
                   bookmarks, book_settings, sync_state, drive_files, drive_blobs, inv>>

\* set_book_collections: every junction row of the book is deleted, then one
\* row with a fresh uuid is inserted for each id of collection_ids (here no
\* id or one id).
SetBookCollections(d, book_id, collection_ids) ==
    /\ Tick
    /\ book_id \in DOMAIN books[d]
    /\ collection_ids \subseteq DOMAIN collections[d]
    /\ Cardinality(collection_ids) <= 1
    /\ book_collections' = [book_collections EXCEPT ![d] =
            {bc \in @ : bc.book_id # book_id} \cup
            {[uuid |-> now,
              book_id |-> book_id,
              collection_id |-> cid,
              added_at |-> NaiveUtc(now),
              updated_at |-> NULL,
              deleted_at |-> NULL] : cid \in collection_ids}]
    /\ returned' = [returned EXCEPT ![d] =
            Returned("set_book_collections", "Ok", {}, book_id)]
    /\ UNCHANGED <<IMAGE_LIST_CACHE, page_requests, calc, token, library_dir, books, collections, bookmarks, book_settings,
                   sync_state, app_settings, drive_files, drive_blobs, inv>>

LiveBookmarks(d) == {i \in DOMAIN bookmarks[d] : bookmarks[d][i].deleted_at = NULL}

\* create_bookmark: NewBookmark carries no updated_at, the nullable column
\* stays NULL.
CreateBookmark(d, book_id) ==
    /\ Tick
    /\ book_id \in LiveBooks(d)
    /\ bookmarks' = [bookmarks EXCEPT ![d] = Append(@,
            [uuid |-> now,
             book_id |-> book_id,
             name |-> 0,
             created_at |-> NaiveUtc(now),
             updated_at |-> NULL,
             deleted_at |-> NULL])]
    /\ UNCHANGED <<IMAGE_LIST_CACHE, page_requests, calc, token, library_dir, returned, books, collections, book_collections, book_settings,
                   sync_state, app_settings, drive_files, drive_blobs, inv>>

UpdateBookmark(d, id) ==
    /\ Tick
    /\ id \in LiveBookmarks(d)
    /\ bookmarks' = [bookmarks EXCEPT ![d][id] = [@ EXCEPT !.name = now, !.updated_at = NaiveUtc(now)]]
    /\ UNCHANGED <<IMAGE_LIST_CACHE, page_requests, calc, token, library_dir, returned, books, collections, book_collections, book_settings,
                   sync_state, app_settings, drive_files, drive_blobs, inv>>

DeleteBookmark(d, id) ==
    /\ Tick
    /\ id \in LiveBookmarks(d)
    /\ bookmarks' = [bookmarks EXCEPT ![d][id] =
            [@ EXCEPT !.deleted_at = NaiveUtc(now), !.updated_at = NaiveUtc(now)]]
    /\ UNCHANGED <<IMAGE_LIST_CACHE, page_requests, calc, token, library_dir, returned, books, collections, book_collections, book_settings,
                   sync_state, app_settings, drive_files, drive_blobs, inv>>

\* update_book_settings inserting a row whether the book has one or not, on
\* a table without UNIQUE(book_id).
UpdateBookSettings_always_insert(d, book_id) ==
    /\ Tick
    /\ book_id \in LiveBooks(d)
    /\ book_settings' = [book_settings EXCEPT ![d] = Append(@,
            [uuid |-> now,
             book_id |-> book_id,
             value |-> now,
             updated_at |-> NaiveUtc(now),
             deleted_at |-> NULL])]
    /\ UNCHANGED <<IMAGE_LIST_CACHE, page_requests, calc, token, library_dir, returned, books, collections, book_collections, bookmarks,
                   sync_state, app_settings, drive_files, drive_blobs, inv>>

\* update_book_settings: updates the live row of the book or inserts one.
UpdateBookSettings(d, book_id) ==
    /\ Tick
    /\ book_id \in LiveBooks(d)
    /\ LET S == {i \in DOMAIN book_settings[d] :
                    /\ book_settings[d][i].book_id = book_id
                    /\ book_settings[d][i].deleted_at = NULL}
       IN IF S # {}
          THEN book_settings' = [book_settings EXCEPT ![d] =
                    [i \in DOMAIN @ |-> IF i \in S
                                        THEN [@[i] EXCEPT !.value = now, !.updated_at = NaiveUtc(now)]
                                        ELSE @[i]]]
          ELSE /\ \A i \in DOMAIN book_settings[d] : book_settings[d][i].book_id # book_id
               /\ book_settings' = [book_settings EXCEPT ![d] = Append(@,
                        [uuid |-> now,
                         book_id |-> book_id,
                         value |-> now,
                         updated_at |-> NaiveUtc(now),
                         deleted_at |-> NULL])]
    /\ UNCHANGED <<IMAGE_LIST_CACHE, page_requests, calc, token, library_dir, returned, books, collections, book_collections, bookmarks,
                   sync_state, app_settings, drive_files, drive_blobs, inv>>

\* diesel::insert_into(book_settings) of a row for the book, as the merge and
\* test_unique_settings_per_book issue it: UNIQUE(book_id) rejects it when the
\* book has a row, and no row changes.
InsertBookSettings(d, book_id) ==
    /\ Tick
    /\ book_id \in DOMAIN books[d]
    /\ IF \E i \in DOMAIN book_settings[d] : book_settings[d][i].book_id = book_id
       THEN /\ book_settings' = book_settings
            /\ returned' = [returned EXCEPT ![d] =
                    Returned("insert_book_settings", "Err", {}, book_id)]
       ELSE /\ book_settings' = [book_settings EXCEPT ![d] = Append(@,
                    [uuid |-> now,
                     book_id |-> book_id,
                     value |-> now,
                     updated_at |-> NaiveUtc(now),
                     deleted_at |-> NULL])]
            /\ returned' = [returned EXCEPT ![d] =
                    Returned("insert_book_settings", "Ok", {}, book_id)]
    /\ UNCHANGED <<IMAGE_LIST_CACHE, page_requests, calc, token, library_dir, books, collections, book_collections, bookmarks,
                   sync_state, app_settings, drive_files, drive_blobs, inv>>

\* ------------------------------------------------------------------------
\* sync/drive.rs
\* ------------------------------------------------------------------------
\* files.list(name = 'sync_snapshot.json'): the first file, 0 when none.  A
\* file id is the index of the file in drive_files.
find_sync_file == IF drive_files = <<>> THEN 0 ELSE 1

\* download_snapshot: None (here the empty snapshot that MergeEngine::sync
\* puts in its place) when no file is found.
\* response.json::<SyncSnapshot>(): the fields of the struct are read from
\* the document, every other top-level key is ignored (serde's default, the
\* struct has no deny_unknown_fields and no flattened map), and version is
\* read as any u32.
SyncSnapshot_from_json(doc) == [k \in DOMAIN SyncSnapshot_new |-> doc[k]]

download_snapshot ==
    IF find_sync_file = 0 THEN SyncSnapshot_new
    ELSE SyncSnapshot_from_json(drive_files[find_sync_file])

\* upload_snapshot: PATCH of the file with the given id, else a new file.
upload_snapshot(files, snapshot, existing_file_id) ==
    IF existing_file_id # 0 THEN [files EXCEPT ![existing_file_id] = snapshot]
    ELSE Append(files, snapshot)

\* A device with a later version of the application rewrites the file: the
\* structure this version knows, a greater version, and one top-level key
\* this version does not know.
NewerWriterUpload ==
    /\ drive_files' = upload_snapshot(drive_files,
            [k \in DOMAIN SyncSnapshot_new \cup {"reading_lists"} |->
                IF k = "version" THEN CURRENT_VERSION + 1
                ELSE IF k = "reading_lists" THEN now
                ELSE download_snapshot[k]],
            find_sync_file)
    /\ UNCHANGED <<IMAGE_LIST_CACHE, page_requests, calc, now, token, library_dir, returned, books, collections, book_collections,
                   bookmarks, book_settings, sync_state, app_settings, drive_blobs, inv>>

\* ------------------------------------------------------------------------
\* commands/sync.rs: sync_now, one action per stretch between two awaits
\* ------------------------------------------------------------------------
\* Entry to sync_now on device d with the sync.* settings giving options (at
\* least one of them on, the token valid), up to the return of
\* download_snapshot.
SyncDownload(i, d, options) ==
    /\ \/ inv[i].pc = "idle" /\ get_auth_status(d) /\ ~is_expired(token[d], now)
       \/ inv[i].pc = "refreshed" /\ inv[i].dev = d /\ inv[i].options = options
    /\ inv' = [inv EXCEPT ![i] = [IdleInv EXCEPT !.pc = "downloaded",
                                                 !.dev = d,
                                                 !.options = options,
                                                 !.remote = download_snapshot]]
    /\ UNCHANGED <<IMAGE_LIST_CACHE, page_requests, calc, token, library_dir, returned, now, books, collections, book_collections, bookmarks, book_settings,
                   sync_state, app_settings, drive_files, drive_blobs>>

\* The return of find_sync_file, then MergeEngine::sync of an engine built
\* with the given strategy.  On Err the writes made so far stay and sync_now
\* returns the error.
MergeEngine_new(i, strategy) ==
    /\ inv[i].pc = "downloaded"
    /\ Tick
    /\ LET d == inv[i].dev IN
       \E o \in IterationOrders(inv[i].remote) :
          LET r == MergeEngine_sync(d, strategy, inv[i].options,
                                    Catalog(d), inv[i].remote, now, o)
          IN  /\ books' = [books EXCEPT ![d] = r.cat.books]
              /\ collections' = [collections EXCEPT ![d] = r.cat.collections]
              /\ book_collections' = [book_collections EXCEPT ![d] = r.cat.book_collections]
              /\ bookmarks' = [bookmarks EXCEPT ![d] = r.cat.bookmarks]
              /\ book_settings' = [book_settings EXCEPT ![d] = r.cat.book_settings]
              /\ sync_state' = [sync_state EXCEPT ![d] = r.cat.sync_state]
              /\ app_settings' = [app_settings EXCEPT ![d] = r.cat.app_settings]
              /\ inv' = [inv EXCEPT ![i].pc = IF r.err THEN "failed" ELSE "merged",
                                    ![i].pre = Catalog(d),
                                    ![i].snapshot = r.snapshot,
                                    ![i].result = [SyncResult_empty EXCEPT
                                        !.success = (SyncResult_empty.errors = {})],
                                    ![i].file_id = find_sync_file]
    /\ UNCHANGED <<IMAGE_LIST_CACHE, page_requests, calc, token, library_dir, returned, drive_files, drive_blobs>>

\* sync_now_impl builds the engine with ConflictStrategy::default().
SyncMerge(i) == MergeEngine_new(i, ConflictStrategy_default)

\* sync_now returns the error of the merge.
SyncMergeFailed(i) ==
    /\ inv[i].pc = "failed"
    /\ inv' = [inv EXCEPT ![i] = IdleInv]
    /\ returned' = [returned EXCEPT ![inv[i].dev] = Returned("sync_now", "DatabaseError", {}, 0)]
    /\ UNCHANGED <<IMAGE_LIST_CACHE, page_requests, calc, token, library_dir, now, books, collections, book_collections, bookmarks, book_settings,
                   sync_state, app_settings, drive_files, drive_blobs>>

\* upload_snapshot succeeds.
SyncUpload(i) ==
    /\ inv[i].pc = "merged"
    /\ drive_files' = upload_snapshot(drive_files, inv[i].snapshot, inv[i].file_id)
    /\ inv' = [inv EXCEPT ![i].pc = "uploaded",
                          ![i].file_id = IF @ # 0 THEN @ ELSE Len(drive_files) + 1]
    /\ UNCHANGED <<IMAGE_LIST_CACHE, page_requests, calc, token, library_dir, returned, now, books, collections, book_collections, bookmarks, book_settings,
                   sync_state, app_settings, drive_blobs>>

\* upload_snapshot fails: sync_now returns the error, the merge stays.
SyncUploadFailed(i) ==
    /\ inv[i].pc = "merged"
    /\ inv' = [inv EXCEPT ![i] = IdleInv]
    /\ returned' = [returned EXCEPT ![inv[i].dev] = Returned("sync_now", "SyncFailed", {}, 0)]
    /\ UNCHANGED <<IMAGE_LIST_CACHE, page_requests, calc, token, library_dir, now, books, collections, book_collections, bookmarks, book_settings,
                   sync_state, app_settings, drive_files, drive_blobs>>

\* A file pass that gives up, and makes sync_now fail, at the first archive
\* whose upload fails.
SyncFiles_abort_on_failure(i, uploaded) ==
    /\ inv[i].pc = "uploaded"
    /\ LET d == inv[i].dev
           candidates == {books[d][k].file_hash : k \in
                            {k \in LiveBooks(d) : /\ books[d][k].file_hash # NoHash
                                                  /\ books[d][k].file_hash \notin drive_blobs
                                                  /\ books[d][k].file_path.kind # "cloud"}}
           to_upload == IF inv[i].options.sync_books_files THEN candidates ELSE {}
       IN  /\ uploaded \subseteq to_upload
           /\ drive_blobs' = drive_blobs \cup uploaded
           /\ sync_state' = IF uploaded = to_upload
                            THEN [sync_state EXCEPT ![d].sync_file_id = inv[i].file_id]
                            ELSE sync_state
           /\ returned' = [returned EXCEPT ![d] =
                    IF uploaded = to_upload
                    THEN Ok_SyncResult(inv[i].result)
                    ELSE Returned("sync_now", "SyncFailed", {}, 0)]
    /\ inv' = [inv EXCEPT ![i] = IdleInv]
    /\ UNCHANGED <<IMAGE_LIST_CACHE, page_requests, calc, token, library_dir, now, books, collections, book_collections, bookmarks, book_settings,
                   app_settings, drive_files>>

\* A file pass that does not wait for the snapshot upload.
SyncFiles_before_upload(i, uploaded) ==
    /\ inv[i].pc = "merged"
    /\ LET d == inv[i].dev
           candidates == {books[d][k].file_hash : k \in
                            {k \in LiveBooks(d) : /\ books[d][k].file_hash # NoHash
                                                  /\ books[d][k].file_hash \notin drive_blobs
                                                  /\ books[d][k].file_path.kind # "cloud"}}
           to_upload == IF inv[i].options.sync_books_files THEN candidates ELSE {}
       IN  /\ uploaded \subseteq to_upload
           /\ drive_blobs' = drive_blobs \cup uploaded
           /\ sync_state' = [sync_state EXCEPT ![d].sync_file_id = inv[i].file_id]
           /\ returned' = [returned EXCEPT ![d] =
                    Ok_SyncResult([inv[i].result EXCEPT
                        !.errors = @ \cup (to_upload \ uploaded)])]
    /\ inv' = [inv EXCEPT ![i] = IdleInv]
    /\ UNCHANGED <<IMAGE_LIST_CACHE, page_requests, calc, token, library_dir, now, books, collections, book_collections, bookmarks, book_settings,
                   app_settings, drive_files>>

\* sync_book_files (when sync_books_files is on): every live local book with
\* a hash, no blob on Drive and its file on disk is uploaded, each upload
\* succeeding or not (uploaded is the set that succeeded, the others go to
\* SyncResult.errors).  Then the file id is saved to sync_state and sync_now
\* returns Ok.
SyncFiles(i, uploaded) ==
    /\ inv[i].pc = "uploaded"
    /\ LET d == inv[i].dev
           candidates == {books[d][k].file_hash : k \in
                            {k \in LiveBooks(d) : /\ books[d][k].file_hash # NoHash
                                                  /\ books[d][k].file_hash \notin drive_blobs
                                                  /\ books[d][k].file_path.kind # "cloud"}}
           to_upload == IF inv[i].options.sync_books_files THEN candidates ELSE {}
       IN  /\ uploaded \subseteq to_upload
           /\ drive_blobs' = drive_blobs \cup uploaded
           /\ sync_state' = [sync_state EXCEPT ![d].sync_file_id = inv[i].file_id]
           /\ returned' = [returned EXCEPT ![d] =
                    Ok_SyncResult([inv[i].result EXCEPT
                        !.errors = @ \cup (to_upload \ uploaded)])]
    /\ inv' = [inv EXCEPT ![i] = IdleInv]
    /\ UNCHANGED <<IMAGE_LIST_CACHE, page_requests, calc, token, library_dir, now, books, collections, book_collections, bookmarks, book_settings,
                   app_settings, drive_files>>

\* sync_book_files fails at list_book_files: sync_now returns the error,
\* no archive is uploaded and the file id is not saved.
SyncFilesFailed(i) ==
    /\ inv[i].pc = "uploaded"
    /\ inv[i].options.sync_books_files
    /\ inv' = [inv EXCEPT ![i] = IdleInv]
    /\ returned' = [returned EXCEPT ![inv[i].dev] = Returned("sync_now", "SyncFailed", {}, 0)]
    /\ UNCHANGED <<IMAGE_LIST_CACHE, page_requests, calc, token, library_dir, now, books, collections, book_collections, bookmarks,
                   book_settings, sync_state, app_settings, drive_files, drive_blobs>>

\* A check of the authentication that comes after a first write to Drive.
SyncNotAuthenticated_after_upload(d) ==
    /\ ~get_auth_status(d)
    /\ drive_files' = upload_snapshot(drive_files, SyncSnapshot_new, find_sync_file)
    /\ returned' = [returned EXCEPT ![d] = Returned("sync_now", "NotAuthenticated", {}, 0)]
    /\ UNCHANGED <<IMAGE_LIST_CACHE, page_requests, calc, token, library_dir, now, books, collections, book_collections, bookmarks,
                   book_settings, sync_state, app_settings, drive_blobs, inv>>

\* sync_now of a user who is not authenticated: the first check returns.
SyncNotAuthenticated(d) ==
    /\ ~get_auth_status(d)
    /\ returned' = [returned EXCEPT ![d] = Returned("sync_now", "NotAuthenticated", {}, 0)]
    /\ UNCHANGED <<IMAGE_LIST_CACHE, page_requests, calc, token, library_dir, now, books, collections, book_collections, bookmarks,
                   book_settings, sync_state, app_settings, drive_files, drive_blobs, inv>>

\* sync_now with sync.books, sync.settings and sync.progress all off.
SyncNothingEnabled(d) ==
    /\ get_auth_status(d)
    /\ returned' = [returned EXCEPT ![d] = Ok_SyncResult(SyncResult_empty)]
    /\ UNCHANGED <<IMAGE_LIST_CACHE, page_requests, calc, token, library_dir, now, books, collections, book_collections, bookmarks,
                   book_settings, sync_state, app_settings, drive_files, drive_blobs, inv>>

\* Entry to sync_now with an expired token that can be refreshed, up to the
\* return of refresh_token_internal with a new token, which is saved.
SyncRefresh(i, d, options, expires_in) ==
    /\ inv[i].pc = "idle"
    /\ get_auth_status(d)
    /\ is_expired(token[d], now)
    /\ token' = [token EXCEPT ![d] = refresh_token_internal(@, expires_in)]
    /\ inv' = [inv EXCEPT ![i] = [IdleInv EXCEPT !.pc = "refreshed",
                                                 !.dev = d,
                                                 !.options = options]]
    /\ UNCHANGED <<IMAGE_LIST_CACHE, page_requests, calc, library_dir, returned, now, books, collections, book_collections,
                   bookmarks, book_settings, sync_state, app_settings, drive_files,
                   drive_blobs>>

\* The same with refresh_token_internal failing: clear_token, then the
\* error built by AppError::sync_failed.
SyncRefreshFailed(d) ==
    /\ get_auth_status(d)
    /\ is_expired(token[d], now)
    /\ token' = [token EXCEPT ![d] = NoToken]
    /\ returned' = [returned EXCEPT ![d] = Returned("sync_now", "SyncFailed", {}, 0)]
    /\ UNCHANGED <<IMAGE_LIST_CACHE, page_requests, calc, library_dir, now, books, collections, book_collections, bookmarks,
                   book_settings, sync_state, app_settings, drive_files, drive_blobs, inv>>

\* download_snapshot (or find_sync_file) fails: sync_now returns the error.
SyncDownloadFailed(i, d) ==
    /\ \/ inv[i].pc = "idle" /\ get_auth_status(d) /\ ~is_expired(token[d], now)
       \/ inv[i].pc = "refreshed" /\ inv[i].dev = d
    /\ inv' = [inv EXCEPT ![i] = IdleInv]
    /\ returned' = [returned EXCEPT ![d] = Returned("sync_now", "SyncFailed", {}, 0)]
    /\ UNCHANGED <<IMAGE_LIST_CACHE, page_requests, calc, token, library_dir, now, books, collections, book_collections, bookmarks,
                   book_settings, sync_state, app_settings, drive_files, drive_blobs>>

\* ------------------------------------------------------------------------
\* commands/auth.rs
\* ------------------------------------------------------------------------
\* save_google_auth_token(access_token, refresh_token, expires_at).
SaveGoogleAuthToken(d, refresh_token, expires_at) ==
    /\ token' = [token EXCEPT ![d] = AuthToken(refresh_token, expires_at)]
    /\ UNCHANGED <<IMAGE_LIST_CACHE, page_requests, calc, library_dir, returned, now, books, collections, book_collections,
                   bookmarks, book_settings, sync_state, app_settings, drive_files,
                   drive_blobs, inv>>

\* google_logout: clear_token.
GoogleLogout(d) ==
    /\ token[d].stored
    /\ token' = [token EXCEPT ![d] = NoToken]
    /\ UNCHANGED <<IMAGE_LIST_CACHE, page_requests, calc, library_dir, returned, now, books, collections, book_collections,
                   bookmarks, book_settings, sync_state, app_settings, drive_files,
                   drive_blobs, inv>>

\* ------------------------------------------------------------------------
\* Specifications
\* ------------------------------------------------------------------------
AllIdle == \A i \in Inv : inv[i].pc = "idle"

\* A command, or a new sync_now, of a specification that runs one sync_now
\* at a time and stops its clock at horizon.
Ready(horizon) == AllIdle /\ now < horizon

\* Devices X, Y and Z with sync.books and sync.progress on: book commands,
\* one sync_now at a time (invocation 1).
NextFull ==
    \/ \E d \in Dev, h \in Hashes : Ready(ShortTime) /\ ImportBook(d, h)
    \/ \E d \in Dev : \E id \in DOMAIN books[d] :
            Ready(ShortTime) /\ UpdateBookTitle(d, id)
    \/ \E d \in Dev, cloud_ok \in BOOLEAN : \E id \in DOMAIN books[d] :
            Ready(ShortTime) /\ DeleteBook(d, id, cloud_ok)
    \/ \E d \in Dev : Ready(ShortTime) /\ SyncDownload(1, d, OptFull)
    \/ SyncMerge(1)
    \/ SyncUpload(1)
    \/ SyncUploadFailed(1)
    \/ \E uploaded \in SUBSET Hashes : SyncFiles(1, uploaded)

SpecFull == Init /\ [][NextFull]_vars

\* Devices X and Y that edit until QuietFrom and from then on only run
\* sync_now, with sync.books and sync.progress on, one after another, the
\* device whose last sync is the older one next, every upload succeeding.
QuietTurn(d) == \A e \in {"X", "Y"} : sync_state[d].last_sync_at <= sync_state[e].last_sync_at

NextQuiet ==
    \/ \E d \in {"X", "Y"}, h \in Hashes : Ready(QuietFrom) /\ ImportBook(d, h)
    \/ \E d \in {"X", "Y"} : \E id \in DOMAIN books[d] :
            Ready(QuietFrom) /\ UpdateBookTitle(d, id)
    \/ \E d \in {"X", "Y"}, cloud_ok \in BOOLEAN : \E id \in DOMAIN books[d] :
            Ready(QuietFrom) /\ DeleteBook(d, id, cloud_ok)
    \/ \E d \in {"X", "Y"} : Ready(QuietFrom) /\ SyncDownload(1, d, OptFull)
    \/ \E d \in {"X", "Y"} :
            AllIdle /\ now >= QuietFrom /\ QuietTurn(d) /\ SyncDownload(1, d, OptFull)
    \/ SyncMerge(1)
    \/ SyncUpload(1)
    \/ \E uploaded \in SUBSET Hashes : SyncFiles(1, uploaded)

SpecQuiet == Init /\ [][NextQuiet]_vars

\* Devices X and Y with books and collections, sync.books and sync.progress
\* on, one sync_now at a time.
NextCollections ==
    \/ \E d \in {"X", "Y"}, h \in Hashes : Ready(ShortTime) /\ ImportBook(d, h)
    \/ \E d \in {"X", "Y"}, n \in Names : Ready(ShortTime) /\ CreateCollection(d, n)
    \/ \E d \in {"X", "Y"} : \E id \in DOMAIN collections[d] :
            Ready(ShortTime) /\ UpdateCollection(d, id)
    \/ \E d \in {"X", "Y"} : \E id \in DOMAIN collections[d] :
            Ready(ShortTime) /\ DeleteCollection(d, id)
    \/ \E d \in {"X", "Y"} : Ready(ShortTime) /\ SyncDownload(1, d, OptFull)
    \/ SyncMerge(1)
    \/ SyncMergeFailed(1)
    \/ SyncUpload(1)
    \/ \E uploaded \in SUBSET Hashes : SyncFiles(1, uploaded)

SpecCollections == Init /\ [][NextCollections]_vars

\* Devices X and Y with book commands; each sync_now runs with sync.books
\* on or with sync.progress alone, one at a time.
NextProgress ==
    \/ \E d \in {"X", "Y"}, h \in Hashes : Ready(ShortTime) /\ ImportBook(d, h)
    \/ \E d \in {"X", "Y"} : \E id \in DOMAIN books[d] :
            Ready(ShortTime) /\ UpdateBookTitle(d, id)
    \/ \E d \in {"X", "Y"} : \E id \in DOMAIN books[d] :
            Ready(ShortTime) /\ UpdateBookProgress(d, id)
    \/ \E d \in {"X", "Y"}, cloud_ok \in BOOLEAN : \E id \in DOMAIN books[d] :
            Ready(ShortTime) /\ DeleteBook(d, id, cloud_ok)
    \/ \E d \in {"X", "Y"}, options \in {OptFull, OptProgress} :
            Ready(ShortTime) /\ SyncDownload(1, d, options)
    \/ SyncMerge(1)
    \/ SyncUpload(1)
    \/ \E uploaded \in SUBSET Hashes : SyncFiles(1, uploaded)

SpecProgress == Init /\ [][NextProgress]_vars

\* Devices X and Y with books and the records that refer to books and
\* collections; each sync_now runs with sync.books on or with sync.progress
\* alone, one at a time.
NextReferents ==
    \/ \E d \in {"X", "Y"}, h \in Hashes : Ready(MaxTime) /\ ImportBook(d, h)
    \/ \E d \in {"X", "Y"}, n \in Names : Ready(MaxTime) /\ CreateCollection(d, n)
    \/ \E d \in {"X", "Y"} : \E book_id \in DOMAIN books[d] :
            \E collection_id \in DOMAIN collections[d] :
                Ready(MaxTime) /\ AddBookToCollection(d, book_id, collection_id)
    \/ \E d \in {"X", "Y"} : \E book_id \in DOMAIN books[d] :
            Ready(MaxTime) /\ CreateBookmark(d, book_id)
    \/ \E d \in {"X", "Y"} : \E book_id \in DOMAIN books[d] :
            Ready(MaxTime) /\ UpdateBookSettings(d, book_id)
    \/ \E d \in {"X", "Y"}, options \in {OptFull, OptProgress} :
            Ready(MaxTime) /\ SyncDownload(1, d, options)
    \/ SyncMerge(1)
    \/ SyncUpload(1)
    \/ \E uploaded \in SUBSET Hashes : SyncFiles(1, uploaded)

SpecReferents == Init /\ [][NextReferents]_vars

\* Device X alone, every call of sync_now running as soon as it is made:
\* nothing in sync_now_impl waits for another invocation.
NextConcurrent ==
    \/ \E h \in Hashes : now < ShortTime /\ ImportBook("X", h)
    \/ \E id \in DOMAIN books["X"] : now < ShortTime /\ UpdateBookTitle("X", id)
    \/ \E id \in DOMAIN books["X"], cloud_ok \in BOOLEAN :
            now < ShortTime /\ DeleteBook("X", id, cloud_ok)
    \/ \E i \in Inv : now < ShortTime /\ SyncDownload(i, "X", OptFull)
    \/ \E i \in Inv : SyncMerge(i)
    \/ \E i \in Inv : SyncUpload(i)
    \/ \E i \in Inv : SyncUploadFailed(i)
    \/ \E i \in Inv, uploaded \in SUBSET Hashes : SyncFiles(i, uploaded)

SpecConcurrent == Init /\ [][NextConcurrent]_vars

\* Devices X and Y with collections and X with books, sync.books and
\* sync.progress on, one sync_now at a time, every step of it succeeding or
\* failing; X signs in and out of Google Drive, with tokens that have no
\* expiry or are long expired.
SyncTime == 5

NextSync ==
    \/ \E h \in Hashes : Ready(SyncTime) /\ ImportBook("X", h)
    \/ \E d \in {"X", "Y"}, n \in Names : Ready(SyncTime) /\ CreateCollection(d, n)
    \/ \E refresh_token \in {None, Some("r")}, expires_at \in {None, Some(0)} :
            AllIdle /\ SaveGoogleAuthToken("X", refresh_token, expires_at)
    \/ AllIdle /\ GoogleLogout("X")
    \/ AllIdle /\ SyncNotAuthenticated("X")
    \/ AllIdle /\ SyncNothingEnabled("X")
    \/ \E expires_in \in {None, Some(ExpiresIn)} :
            Ready(SyncTime) /\ SyncRefresh(1, "X", OptFull, expires_in)
    \/ AllIdle /\ SyncRefreshFailed("X")
    \/ \E d \in {"X", "Y"} : Ready(SyncTime) /\ SyncDownload(1, d, OptFull)
    \/ inv[1].pc = "refreshed" /\ SyncDownload(1, inv[1].dev, inv[1].options)
    \/ \E d \in {"X", "Y"} : inv[2].pc = "idle" /\ SyncDownloadFailed(1, d)
    \/ SyncMerge(1)
    \/ SyncMergeFailed(1)
    \/ SyncUpload(1)
    \/ SyncUploadFailed(1)
    \/ \E uploaded \in SUBSET Hashes : SyncFiles(1, uploaded)
    \/ SyncFilesFailed(1)

SpecSync == Init /\ [][NextSync]_vars

\* Device X alone with one sync_now at a time, the book commands running
\* whenever they are called, between two steps of sync_now too.
NextInterleaved ==
    \/ \E h \in Hashes : now < ShortTime /\ ImportBook("X", h)
    \/ \E id \in DOMAIN books["X"] : now < ShortTime /\ UpdateBookTitle("X", id)
    \/ \E id \in DOMAIN books["X"], cloud_ok \in BOOLEAN :
            now < ShortTime /\ DeleteBook("X", id, cloud_ok)
    \/ Ready(ShortTime) /\ SyncDownload(1, "X", OptFull)
    \/ SyncMerge(1)
    \/ SyncUpload(1)
    \/ SyncUploadFailed(1)
    \/ \E uploaded \in SUBSET Hashes : SyncFiles(1, uploaded)
    \/ SyncFilesFailed(1)

SpecInterleaved == Init /\ [][NextInterleaved]_vars

\* Device X alone with two archives, sync.books on, one sync_now at a time,
\* each upload of an archive succeeding or failing.
Archives == {"H", "G"}

NextFiles ==
    \/ \E h \in Archives : Ready(ShortTime) /\ ImportBook("X", h)
    \/ \E id \in DOMAIN books["X"], cloud_ok \in BOOLEAN :
            Ready(ShortTime) /\ DeleteBook("X", id, cloud_ok)
    \/ Ready(ShortTime) /\ SyncDownload(1, "X", OptFull)
    \/ SyncMerge(1)
    \/ SyncUpload(1)
    \/ \E uploaded \in SUBSET Archives : SyncFiles(1, uploaded)
    \/ SyncFilesFailed(1)

SpecFiles == Init /\ [][NextFiles]_vars

\* Device X alone with its import, book and collection commands.
NextImport ==
    \/ \E archive \in ArchiveFiles, collection_id \in CollectionIds, backup_files \in BOOLEAN :
            ImportBookFromArchive("X", archive, collection_id, backup_files)
    \/ \E id \in DOMAIN books["X"] : now < ShortTime /\ UpdateBookTitle("X", id)
    \/ \E id \in DOMAIN books["X"] : now < ShortTime /\ DeleteBook("X", id, FALSE)
    \/ \E n \in Names : now < ShortTime /\ CreateCollection("X", n)

SpecImport == Init /\ [][NextImport]_vars

\* Devices X and Y with imports and page updates, sync.books and
\* sync.progress on, one sync_now at a time.
NextPages ==
    \/ \E d \in {"X", "Y"}, h \in Hashes : Ready(ShortTime) /\ ImportBook(d, h)
    \/ \E d \in {"X", "Y"}, current_page \in PageInputs : \E id \in DOMAIN books[d] :
            Ready(ShortTime) /\ UpdateBookPage(d, id, current_page)
    \/ \E d \in {"X", "Y"} : Ready(ShortTime) /\ SyncDownload(1, d, OptFull)
    \/ SyncMerge(1)
    \/ SyncUpload(1)
    \/ \E uploaded \in SUBSET Hashes : SyncFiles(1, uploaded)

SpecPages == Init /\ [][NextPages]_vars

\* The names the frontend passes to create_collection and update_collection.
CollectionNames == {"N", "M"}

\* Devices X and Y with collection commands (create, rename, delete) and one
\* sync_now at a time.
NextNames ==
    \/ \E d \in {"X", "Y"}, n \in CollectionNames :
            Ready(ShortTime) /\ CreateCollection(d, n)
    \/ \E d \in {"X", "Y"}, n \in CollectionNames : \E id \in DOMAIN collections[d] :
            Ready(ShortTime) /\ RenameCollection(d, id, n)
    \/ \E d \in {"X", "Y"} : \E id \in DOMAIN collections[d] :
            Ready(ShortTime) /\ DeleteCollection(d, id)
    \/ \E d \in {"X", "Y"} : Ready(ShortTime) /\ SyncDownload(1, d, OptFull)
    \/ SyncMerge(1)
    \/ SyncMergeFailed(1)
    \/ SyncUpload(1)
    \/ SyncFiles(1, {})

SpecNames == Init /\ [][NextNames]_vars

\* Device X imports and uploads, device Y receives the books as cloud-only
\* rows, asks for pages and downloads; one sync_now at a time.
NextCloud ==
    \/ \E d \in {"X", "Y"}, h \in Archives : Ready(ShortTime) /\ ImportBook(d, h)
    \/ \E id \in DOMAIN books["Y"] : Ready(ShortTime) /\ DeleteBook("Y", id, FALSE)
    \/ \E d \in {"X", "Y"} : Ready(ShortTime) /\ SyncDownload(1, d, OptFull)
    \/ SyncMerge(1)
    \/ SyncUpload(1)
    \/ \E uploaded \in SUBSET Archives : SyncFiles(1, uploaded)
    \/ \E refresh_ok, download_ok \in BOOLEAN : \E id \in DOMAIN books["Y"] :
            Ready(ShortTime) /\ DownloadCloudBook("Y", id, refresh_ok, download_ok)
    \/ \E page_number \in PageNumbers : \E id \in DOMAIN books["Y"] :
            AllIdle /\ HandleComicProtocol("Y", id, page_number)

SpecCloud == Init /\ [][NextCloud]_vars

\* Device X with book commands and sync_now, next to a device that runs a
\* later version of the application and writes snapshots of version 2.
NextVersions ==
    \/ \E h \in Hashes : Ready(ShortTime) /\ ImportBook("X", h)
    \/ \E id \in DOMAIN books["X"] : Ready(ShortTime) /\ UpdateBookTitle("X", id)
    \/ \E n \in Names : Ready(ShortTime) /\ CreateCollection("X", n)
    \/ Ready(ShortTime) /\ SyncDownload(1, "X", OptFull)
    \/ SyncMerge(1)
    \/ SyncUpload(1)
    \/ \E uploaded \in SUBSET Hashes : SyncFiles(1, uploaded)
    \/ AllIdle /\ NewerWriterUpload

SpecVersions == Init /\ [][NextVersions]_vars

\* Devices X and Y with imports, settings of the books and one sync_now at a
\* time (sync.books and sync.progress on).
NextSettings ==
    \/ \E d \in {"X", "Y"}, h \in Hashes : Ready(ShortTime) /\ ImportBook(d, h)
    \/ \E d \in {"X", "Y"} : \E id \in DOMAIN books[d] :
            Ready(ShortTime) /\ UpdateBookSettings(d, id)
    \/ \E d \in {"X", "Y"} : \E id \in DOMAIN books[d] :
            Ready(ShortTime) /\ InsertBookSettings(d, id)
    \/ \E d \in {"X", "Y"} : Ready(ShortTime) /\ SyncDownload(1, d, OptFull)
    \/ SyncMerge(1)
    \/ SyncUpload(1)
    \/ \E uploaded \in SUBSET Hashes : SyncFiles(1, uploaded)

SpecSettings == Init /\ [][NextSettings]_vars

\* Device X with imports (managed storage on or off, no collection) and
\* deletes, device Y with downloads of its cloud-only books, one sync_now at
\* a time.
NextPaths ==
    \/ \E archive \in ArchiveFiles, backup_files \in BOOLEAN :
            Ready(ShortTime) /\ ImportBookFromArchive("X", archive, NULL, backup_files)
    \/ \E id \in DOMAIN books["X"] : Ready(ShortTime) /\ DeleteBook("X", id, FALSE)
    \/ \E d \in {"X", "Y"} : Ready(ShortTime) /\ SyncDownload(1, d, OptFull)
    \/ SyncMerge(1)
    \/ SyncUpload(1)
    \/ \E uploaded \in {{}, Archives} : SyncFiles(1, uploaded)
    \/ \E id \in DOMAIN books["Y"] : AllIdle /\ DownloadCloudBook("Y", id, TRUE, TRUE)

SpecPaths == Init /\ [][NextPaths]_vars

\* Device X importing archives without a collection and deleting books,
\* the file of an archive being overwritten in place between two imports.
NextReplaced ==
    \/ \E archive \in ReplacedArchiveFiles, backup_files \in BOOLEAN :
            ImportBookFromArchive("X", archive, NULL, backup_files)
    \/ \E id \in DOMAIN books["X"] : now < ShortTime /\ DeleteBook("X", id, FALSE)
    \/ \E id \in DOMAIN books["X"] : now < ShortTime /\ UpdateBookTitle("X", id)

SpecReplaced == Init /\ [][NextReplaced]_vars

\* Device X with imports, deletes and one sync_now at a time, signed in to
\* Google or not.
NextDeletes ==
    \/ \E h \in Archives : Ready(ShortTime) /\ ImportBook("X", h)
    \/ \E cloud_ok \in BOOLEAN : \E id \in DOMAIN books["X"] :
            Ready(ShortTime) /\ DeleteBook("X", id, cloud_ok)
    \/ AllIdle /\ GoogleLogout("X")
    \/ \E refresh_token \in {None, Some("r")}, expires_at \in {None, Some(0)} :
            AllIdle /\ SaveGoogleAuthToken("X", refresh_token, expires_at)
    \/ Ready(ShortTime) /\ SyncDownload(1, "X", OptFull)
    \/ SyncMerge(1)
    \/ SyncUpload(1)
    \/ \E uploaded \in SUBSET Archives : SyncFiles(1, uploaded)

SpecDeletes == Init /\ [][NextDeletes]_vars

\* Devices X and Y of one user with collections, each with its own sync_now
\* running as soon as it is called: nothing in sync_now_impl or on Drive
\* makes one device wait for the other.
NextDevices ==
    \/ \E d \in {"X", "Y"}, n \in Names : now < ShortTime /\ CreateCollection(d, n)
    \/ now < ShortTime /\ SyncDownload(1, "X", OptFull)
    \/ now < ShortTime /\ SyncDownload(2, "Y", OptFull)
    \/ \E i \in Inv : SyncMerge(i)
    \/ \E i \in Inv : SyncUpload(i)
    \/ \E i \in Inv : SyncFiles(i, {})

SpecDevices == Init /\ [][NextDevices]_vars

\* Device X with a book, a collection and the commands that put the book in
\* the collection and take it out, one sync_now at a time (sync.books on).
NextJunctions ==
    \/ Ready(MaxTime) /\ ImportBook("X", "H")
    \/ Ready(MaxTime) /\ CreateCollection("X", "N")
    \/ \E book_id \in DOMAIN books["X"], collection_id \in DOMAIN collections["X"] :
            Ready(MaxTime) /\ AddBookToCollection("X", book_id, collection_id)
    \/ \E book_id \in DOMAIN books["X"], collection_id \in DOMAIN collections["X"] :
            Ready(MaxTime) /\ RemoveBookFromCollection("X", book_id, collection_id)
    \/ \E book_id \in DOMAIN books["X"], collection_ids \in SUBSET DOMAIN collections["X"] :
            Ready(MaxTime) /\ SetBookCollections("X", book_id, collection_ids)
    \/ \E options \in {OptFull, OptBooks} : Ready(MaxTime) /\ SyncDownload(1, "X", options)
    \/ SyncMerge(1)
    \/ SyncUpload(1)
    \/ SyncFiles(1, {})

SpecJunctions == Init /\ [][NextJunctions]_vars

\* The page requests of device X, two at a time: the books are opened one
\* after the other (each request asks for the least book id not cached) and
\* the first books are opened again and again.
MaxBookId == 11

HotBooks == {1, 2}

MaxPageRequests == 12

NextCache ==
    \/ \E r \in Req, book_id \in 1..MaxBookId :
            /\ page_requests["X"].served < MaxPageRequests
            /\ \/ book_id \in HotBooks
               \/ /\ book_id \notin DOMAIN IMAGE_LIST_CACHE["X"]
                  /\ \A b \in 1..(book_id - 1) : b \in DOMAIN IMAGE_LIST_CACHE["X"]
            /\ CacheRead("X", r, book_id, book_id)
    \/ \E r \in Req : CacheWrite("X", r)

SpecCache == Init /\ [][NextCache]_vars

\* Devices X and Y editing their settings and syncing with sync.settings
\* on, one sync_now at a time.
NextAppSettings ==
    \/ \E d \in {"X", "Y"}, v \in SettingValues : AllIdle /\ UpdateSettingsFromMap(d, v)
    \/ \E d \in {"X", "Y"} : Ready(ShortTime) /\ SyncDownload(1, d, OptSettings)
    \/ SyncMerge(1)
    \/ SyncUpload(1)
    \/ SyncFiles(1, {})

SpecAppSettings == Init /\ [][NextAppSettings]_vars

\* The engine built with RemoteWins or LocalWins: the strategy is given at
\* the start and every merge of devices X and Y uses it; X imports, both
\* change titles and delete, one sync at a time (sync.books on).
InitStrategies ==
    /\ calc \in {[stage |-> "strategy", strategy |-> s] : s \in {"RemoteWins", "LocalWins"}}
    /\ now = 1
    /\ books = [d \in Dev |-> <<>>]
    /\ collections = [d \in Dev |-> <<>>]
    /\ book_collections = [d \in Dev |-> {}]
    /\ bookmarks = [d \in Dev |-> <<>>]
    /\ book_settings = [d \in Dev |-> <<>>]
    /\ sync_state = [d \in Dev |-> EmptyCatalog.sync_state]
    /\ app_settings = [d \in Dev |-> EmptyCatalog.app_settings]
    /\ drive_files = <<>>
    /\ drive_blobs = {}
    /\ inv = [i \in Inv |-> IdleInv]
    /\ token = [d \in Dev |-> AuthToken_new]
    /\ library_dir = [d \in Dev |-> {}]
    /\ returned = [d \in Dev |-> NoReturn]
    /\ IMAGE_LIST_CACHE = [d \in Dev |-> <<>>]
    /\ page_requests = [d \in Dev |-> NoPageRequests]

NextStrategies ==
    \/ Ready(MaxTime) /\ ImportBook("X", "H")
    \/ \E d \in {"X", "Y"} : \E id \in DOMAIN books[d] :
            Ready(MaxTime) /\ UpdateBookTitle(d, id)
    \/ \E d \in {"X", "Y"} : \E id \in DOMAIN books[d] :
            Ready(MaxTime) /\ DeleteBook(d, id, FALSE)
    \/ \E d \in {"X", "Y"} : Ready(MaxTime) /\ SyncDownload(1, d, OptFull)
    \/ MergeEngine_new(1, calc.strategy)
    \/ SyncUpload(1)
    \/ SyncFiles(1, {})

SpecStrategies == InitStrategies /\ [][NextStrategies]_vars

\* Two archives a and b on a fresh install: their content hashes are
\* calculated (duplicate detection of import_book_from_archive), or a is
\* imported, which counts its images for total_pages, and then opened by the
\* page protocol, which lists them.
InitArchives ==
    /\ calc \in {[stage |-> "input", a |-> a, b |-> b] : a, b \in ArchiveInputs}
    /\ now = 1
    /\ books = [d \in Dev |-> <<>>]
    /\ collections = [d \in Dev |-> <<>>]
    /\ book_collections = [d \in Dev |-> {}]
    /\ bookmarks = [d \in Dev |-> <<>>]
    /\ book_settings = [d \in Dev |-> <<>>]
    /\ sync_state = [d \in Dev |-> EmptyCatalog.sync_state]
    /\ app_settings = [d \in Dev |-> EmptyCatalog.app_settings]
    /\ drive_files = <<>>
    /\ drive_blobs = {}
    /\ inv = [i \in Inv |-> IdleInv]
    /\ token = [d \in Dev |-> AuthToken_new]
    /\ library_dir = [d \in Dev |-> {}]
    /\ returned = [d \in Dev |-> NoReturn]
    /\ IMAGE_LIST_CACHE = [d \in Dev |-> <<>>]
    /\ page_requests = [d \in Dev |-> NoPageRequests]

CalculateArchiveHash ==
    /\ calc.stage = "input"
    /\ calc' = [stage |-> "hashed", a |-> calc.a, b |-> calc.b,
                hash_a |-> calculate_zip_hash(calc.a),
                hash_b |-> calculate_zip_hash(calc.b)]
    /\ UNCHANGED <<IMAGE_LIST_CACHE, page_requests, now, books, collections, book_collections, bookmarks, book_settings,
                   sync_state, app_settings, drive_files, drive_blobs, inv, token,
                   library_dir, returned>>

\* The count of import_book_from_archive; an archive without images is
\* refused (IoError) and nothing is stored.
CountArchiveImages ==
    /\ calc.stage = "input"
    /\ calc' = IF count_zip_images(calc.a) = 0
               THEN [stage |-> "refused", a |-> calc.a, b |-> calc.b]
               ELSE [stage |-> "imported", a |-> calc.a, b |-> calc.b,
                     total_pages |-> count_zip_images(calc.a)]
    /\ UNCHANGED <<IMAGE_LIST_CACHE, page_requests, now, books, collections, book_collections, bookmarks, book_settings,
                   sync_state, app_settings, drive_files, drive_blobs, inv, token,
                   library_dir, returned>>

\* get_cached_image_list of the page protocol for the imported archive.
GetImageList ==
    /\ calc.stage = "imported"
    /\ calc' = [stage |-> "listed", a |-> calc.a, b |-> calc.b,
                total_pages |-> calc.total_pages,
                image_list |-> get_zip_image_list(calc.a)]
    /\ UNCHANGED <<IMAGE_LIST_CACHE, page_requests, now, books, collections, book_collections, bookmarks, book_settings,
                   sync_state, app_settings, drive_files, drive_blobs, inv, token,
                   library_dir, returned>>

NextArchives ==
    \/ CalculateArchiveHash
    \/ CountArchiveImages
    \/ GetImageList

SpecArchives == InitArchives /\ [][NextArchives]_vars

\* ------------------------------------------------------------------------
\* auth/types.rs: the status of a token
\* ------------------------------------------------------------------------
\* The refresh tokens a token can carry: none, the empty string, a string.
RefreshTokens == {None, Some(""), Some("r")}

\* Expiry times: none, in the past, around the buffer at the times of the
\* clock, far ahead, and the least values of an i64.
ExpiryInputs ==
    {None, Some(0), Some(ExpiryBuffer + 2), Some(ExpiryBuffer + 4), Some(ExpiresIn),
     Some(I64_MIN), Some(I64_MIN + ExpiryBuffer - 1), Some(I64_MIN + ExpiryBuffer)}

\* A token is given and AuthStatus::from_token is evaluated on it.
InitTokens ==
    /\ calc \in {[stage |-> "token", token |-> AuthToken(r, e)] :
                    r \in RefreshTokens, e \in ExpiryInputs}
    /\ now = 1
    /\ books = [d \in Dev |-> <<>>]
    /\ collections = [d \in Dev |-> <<>>]
    /\ book_collections = [d \in Dev |-> {}]
    /\ bookmarks = [d \in Dev |-> <<>>]
    /\ book_settings = [d \in Dev |-> <<>>]
    /\ sync_state = [d \in Dev |-> EmptyCatalog.sync_state]
    /\ app_settings = [d \in Dev |-> EmptyCatalog.app_settings]
    /\ drive_files = <<>>
    /\ drive_blobs = {}
    /\ inv = [i \in Inv |-> IdleInv]
    /\ token = [d \in Dev |-> AuthToken_new]
    /\ library_dir = [d \in Dev |-> {}]
    /\ returned = [d \in Dev |-> NoReturn]
    /\ IMAGE_LIST_CACHE = [d \in Dev |-> <<>>]
    /\ page_requests = [d \in Dev |-> NoPageRequests]

\* The first field of from_token, token.is_authenticated(): is_expired is
\* evaluated first, and its subtraction panics on overflow in a build with
\* overflow checks and wraps in a build without.
TokenIsAuthenticated ==
    /\ calc.stage = "token"
    /\ \E overflow_checks \in BOOLEAN :
        calc' = IF /\ overflow_checks
                   /\ calc.token.expires_at # None
                   /\ sub_overflows(calc.token.expires_at[1], ExpiryBuffer)
                THEN [stage |-> "panicked", token |-> calc.token]
                ELSE [stage |-> "is_authenticated", token |-> calc.token,
                      is_authenticated |-> is_authenticated(calc.token), at |-> now]
    /\ UNCHANGED <<IMAGE_LIST_CACHE, page_requests, now, books, collections, book_collections, bookmarks, book_settings,
                   sync_state, app_settings, drive_files, drive_blobs, inv, token,
                   library_dir, returned>>

\* The second field, token.is_expired() && token.can_refresh(), with its own
\* reading of the clock.
TokenNeedsRefresh ==
    /\ calc.stage = "is_authenticated"
    /\ calc' = [stage |-> "status", token |-> calc.token, at |-> calc.at, at2 |-> now,
                status |-> AuthStatus_from_token(calc.token, calc.is_authenticated, now)]
    /\ UNCHANGED <<IMAGE_LIST_CACHE, page_requests, now, books, collections, book_collections, bookmarks, book_settings,
                   sync_state, app_settings, drive_files, drive_blobs, inv, token,
                   library_dir, returned>>

\* Time passes.
ClockAdvances ==
    /\ Tick
    /\ UNCHANGED <<IMAGE_LIST_CACHE, page_requests, calc, books, collections, book_collections, bookmarks, book_settings,
                   sync_state, app_settings, drive_files, drive_blobs, inv, token,
                   library_dir, returned>>

NextTokens ==
    \/ TokenIsAuthenticated
    \/ TokenNeedsRefresh
    \/ ClockAdvances

SpecTokens == InitTokens /\ [][NextTokens]_vars

\* ------------------------------------------------------------------------
\* Claims on the merge of one sync_now (SpecFull)
\* ------------------------------------------------------------------------
\* In a specification that runs one sync_now at a time, invocation i has
\* just merged: inv[i].pre is the catalog before the merge, inv[i].remote
\* the downloaded snapshot, the catalog of its device the merged one and
\* inv[i].snapshot the snapshot it uploads.
Merged(i) == inv[i].pc = "merged"

\* C1: for every book, collection or bookmark UUID held by the local catalog
\* and by the downloaded snapshot when a sync visits its class, a tombstone
\* on either side before the merge gives a tombstone on the local row and on
\* the snapshot record to upload, whatever the two updated_at are.
C1_TombstoneDominates ==
    \A i \in Inv : Merged(i) =>
        LET d == inv[i].dev
            pre == inv[i].pre
            remote == inv[i].remote
            snapshot == inv[i].snapshot
            options == inv[i].options
        IN  /\ (options.sync_books \/ options.sync_progress) =>
                \A k \in DOMAIN pre.books :
                    LET u == pre.books[k].uuid IN
                    (/\ u \in DOMAIN remote.books
                     /\ (pre.books[k].deleted_at # NULL \/ remote.books[u].deleted_at # NULL))
                    => /\ books[d][k].deleted_at # NULL
                       /\ snapshot.books[u].deleted_at # NULL
            /\ options.sync_books =>
                \A k \in DOMAIN pre.collections :
                    LET u == pre.collections[k].uuid IN
                    (/\ u \in DOMAIN remote.collections
                     /\ (pre.collections[k].deleted_at # NULL
                            \/ remote.collections[u].deleted_at # NULL))
                    => /\ collections[d][k].deleted_at # NULL
                       /\ snapshot.collections[u].deleted_at # NULL
            /\ options.sync_progress =>
                \A k \in DOMAIN pre.bookmarks :
                    LET u == pre.bookmarks[k].uuid IN
                    (/\ u \in DOMAIN remote.bookmarks
                     /\ (pre.bookmarks[k].deleted_at # NULL
                            \/ remote.bookmarks[u].deleted_at # NULL))
                    => /\ bookmarks[d][k].deleted_at # NULL
                       /\ snapshot.bookmarks[u].deleted_at # NULL

\* The book records of a snapshot with file_hash h.
RecordsWithHash(snapshot_books, h) ==
    {u \in DOMAIN snapshot_books : snapshot_books[u].file_hash = h}

\* The book rows of a table with file_hash h.
RowsWithHash(rows, h) == {k \in DOMAIN rows : rows[k].file_hash = h}

\* C3: a sync with sync_books on, the snapshot holding one book record with
\* hash H, keyed U_x, the device holding no row U_x but one row with hash H,
\* live, with UUID U_y: after the merge the row has UUID U_x and the snapshot
\* to upload holds exactly one record with hash H, keyed U_x, none keyed U_y.
C3_DriftKeepsOneRecord ==
    \A i \in Inv : (Merged(i) /\ inv[i].options.sync_books) =>
        LET d == inv[i].dev
            pre == inv[i].pre
            remote == inv[i].remote
            snapshot == inv[i].snapshot
        IN  \A k \in DOMAIN pre.books : \A Ux \in DOMAIN remote.books :
                LET H == pre.books[k].file_hash
                    Uy == pre.books[k].uuid
                IN  (/\ H # NoHash
                     /\ pre.books[k].deleted_at = NULL
                     /\ RowsWithHash(pre.books, H) = {k}
                     /\ RecordsWithHash(remote.books, H) = {Ux}
                     /\ remote.books[Ux].deleted_at = NULL
                     /\ IdByUuid(pre.books, Ux) = 0)
                    => /\ books[d][k].uuid = Ux
                       /\ RecordsWithHash(snapshot.books, H) = {Ux}
                       /\ Uy \notin DOMAIN snapshot.books

\* C4: in every reachable catalog no two non-deleted book rows have the same
\* non-null file_hash.
C4_LiveHashUnique ==
    \A d \in Dev : \A k1, k2 \in DOMAIN books[d] :
        (/\ k1 # k2
         /\ books[d][k1].deleted_at = NULL
         /\ books[d][k2].deleted_at = NULL
         /\ books[d][k1].file_hash # NoHash)
        => books[d][k1].file_hash # books[d][k2].file_hash

\* The rows of a catalog, without the sync_state row.
Rows(cat) ==
    [books |-> cat.books, collections |-> cat.collections,
     book_collections |-> cat.book_collections, bookmarks |-> cat.bookmarks,
     book_settings |-> cat.book_settings]

\* Invocation i runs on a device whose previous sync_now, with the same
\* options (every sync of SpecFull has the options OptFull), succeeded, with
\* no local edit since (every command stamps updated_at with its time) and
\* no write of the snapshot by another device since.
RerunOfSuccessfulSync(i) ==
    /\ inv[i].pre.sync_state.last_sync_at # NULL
    /\ inv[i].remote.last_modified_by = inv[i].dev
    /\ inv[i].remote.last_modified_at = to_opt_timestamp(inv[i].pre.sync_state.last_sync_at)
    /\ \A k \in DOMAIN inv[i].pre.books :
            inv[i].pre.books[k].updated_at <= inv[i].pre.sync_state.last_sync_at

\* C6: a sync_now repeated on the same device with the same options after a
\* successful one, nothing edited and nothing written by another device in
\* between, changes no local row, no UUID either, and uploads a snapshot
\* equal to the previous one except for last_modified_at.
C6_RerunChangesNothing ==
    \A i \in Inv : (Merged(i) /\ RerunOfSuccessfulSync(i)) =>
        /\ Rows(Catalog(inv[i].dev)) = Rows(inv[i].pre)
        /\ [inv[i].snapshot EXCEPT !.last_modified_at = 0]
                = [inv[i].remote EXCEPT !.last_modified_at = 0]

\* C7: under last-write-wins, for a book with the same UUID on both sides,
\* no tombstone on either side (and no other snapshot record with its hash):
\* a greater remote updated_at puts the remote values in the local row, a
\* greater local updated_at puts the local values in the snapshot record to
\* upload, equal updated_at change neither side.
C7_LastWriteWins ==
    \A i \in Inv : (Merged(i) /\ inv[i].options.sync_books) =>
        LET d == inv[i].dev
            pre == inv[i].pre
            remote == inv[i].remote
            snapshot == inv[i].snapshot
        IN  \A k \in DOMAIN pre.books :
                LET u == pre.books[k].uuid
                    local_book == pre.books[k]
                IN  (/\ u \in DOMAIN remote.books
                     /\ local_book.deleted_at = NULL
                     /\ remote.books[u].deleted_at = NULL
                     /\ RecordsWithHash(remote.books, local_book.file_hash) = {u})
                    => LET remote_book == remote.books[u]
                           local_ts == to_timestamp(local_book.updated_at)
                       IN  /\ remote_book.updated_at > local_ts =>
                                /\ books[d][k].title = remote_book.title
                                /\ books[d][k].page = remote_book.page
                                /\ books[d][k].updated_at = from_timestamp(remote_book.updated_at)
                           /\ local_ts > remote_book.updated_at =>
                                snapshot.books[u] = book_to_remote(local_book)
                           /\ local_ts = remote_book.updated_at =>
                                /\ books[d][k] = local_book
                                /\ snapshot.books[u] = remote_book

\* ------------------------------------------------------------------------
\* Convergence of two devices (SpecQuiet)
\* ------------------------------------------------------------------------
\* What a book row, a collection row and a bookmark row say of their
\* entity, in the terms of the snapshot record, and the same of the records.
BookView(r, ts) ==
    [file_hash |-> r.file_hash, title |-> r.title, page |-> r.page,
     current_page |-> r.current_page, total_pages |-> r.total_pages,
     updated_at |-> ts, deleted |-> r.deleted_at # NULL]

CollectionView(r, ts) ==
    [name |-> r.name, description |-> r.description,
     updated_at |-> ts, deleted |-> r.deleted_at # NULL]

BookmarkView(r, ts) ==
    [name |-> r.name, updated_at |-> ts, deleted |-> r.deleted_at # NULL]

BookViews(rows) ==
    {<<rows[k].uuid, BookView(rows[k], to_timestamp(rows[k].updated_at))>> : k \in DOMAIN rows}

BookRecordViews(recs) ==
    {<<u, BookView(recs[u], recs[u].updated_at)>> : u \in DOMAIN recs}

CollectionViews(rows) ==
    {<<rows[k].uuid, CollectionView(rows[k], to_timestamp(rows[k].updated_at))>> :
        k \in DOMAIN rows}

CollectionRecordViews(recs) ==
    {<<u, CollectionView(recs[u], recs[u].updated_at)>> : u \in DOMAIN recs}

BookmarkViews(rows) ==
    {<<rows[k].uuid, BookmarkView(rows[k], bookmark_to_remote(rows[k], 0).updated_at)>> :
        k \in DOMAIN rows}

BookmarkRecordViews(recs) ==
    {<<u, BookmarkView(recs[u], recs[u].updated_at)>> : u \in DOMAIN recs}

\* Three holders of (uuid, view) pairs agree: a UUID has one view over all
\* of them, and a UUID that is live somewhere is held by each of them.
Agree(a, b, c) ==
    /\ \A p, q \in a \cup b \cup c : p[1] = q[1] => p = q
    /\ \A p \in a \cup b \cup c : ~p[2].deleted => (p \in a /\ p \in b /\ p \in c)

\* C2: X and Y stop editing and run sync_now one after another in turns;
\* when each has synced twice, the two catalogs and the snapshot hold the
\* same field values and the same tombstone state for every book,
\* collection and bookmark UUID known to any of them.
C2_QuietDevicesConverge ==
    (AllIdle /\ now >= QuietFrom + QuietSyncs /\ drive_files # <<>>) =>
        /\ Agree(BookViews(books["X"]), BookViews(books["Y"]),
                 BookRecordViews(drive_files[1].books))
        /\ Agree(CollectionViews(collections["X"]), CollectionViews(collections["Y"]),
                 CollectionRecordViews(drive_files[1].collections))
        /\ Agree(BookmarkViews(bookmarks["X"]), BookmarkViews(bookmarks["Y"]),
                 BookmarkRecordViews(drive_files[1].bookmarks))

\* ------------------------------------------------------------------------
\* A failing merge (SpecCollections)
\* ------------------------------------------------------------------------
\* C5: when the merge engine returns an error, the local catalog - books,
\* collections, junction rows, bookmarks, book_settings and sync_state - is
\* what it was before sync_now began.
C5_FailedMergeLeavesCatalog ==
    \A i \in Inv : inv[i].pc = "failed" => Catalog(inv[i].dev) = inv[i].pre

\* ------------------------------------------------------------------------
\* Progress-only sync (SpecProgress)
\* ------------------------------------------------------------------------
ProgressOnly(i) ==
    Merged(i) /\ ~inv[i].options.sync_books /\ inv[i].options.sync_progress

\* C8 as stated: with sync_books off and sync_progress on a sync inserts no
\* book row, adds no book record, and changes of a book row and of a book
\* record nothing but current_page, reading_status, last_read_at and
\* updated_at.
C8_ProgressOnlyFrame_AsStated ==
    \A i \in Inv : ProgressOnly(i) =>
        LET d == inv[i].dev
            pre == inv[i].pre
            remote == inv[i].remote
            snapshot == inv[i].snapshot
        IN  /\ DOMAIN books[d] = DOMAIN pre.books
            /\ DOMAIN snapshot.books = DOMAIN remote.books
            /\ \A k \in DOMAIN pre.books :
                    [books[d][k] EXCEPT !.current_page = 0, !.page = 0, !.updated_at = 0]
                        = [pre.books[k] EXCEPT !.current_page = 0, !.page = 0, !.updated_at = 0]
            /\ \A u \in DOMAIN remote.books :
                    [snapshot.books[u] EXCEPT !.current_page = 0, !.page = 0, !.updated_at = 0]
                        = [remote.books[u] EXCEPT !.current_page = 0, !.page = 0, !.updated_at = 0]

\* C8, amended: with sync_books off and sync_progress on a sync inserts no
\* book row, adds no book record, leaves title, is_favorite, total_pages,
\* file_path, file_hash and deleted_at of every book row and record as they
\* were; of a local row current_page, reading_status, last_read_at,
\* updated_at and the uuid (a row matched by file_hash takes the UUID of the
\* snapshot record) can change, of a snapshot record current_page,
\* reading_status, last_read_at and updated_at.
C8_ProgressOnlyFrame ==
    \A i \in Inv : ProgressOnly(i) =>
        LET d == inv[i].dev
            pre == inv[i].pre
            remote == inv[i].remote
            snapshot == inv[i].snapshot
        IN  /\ DOMAIN books[d] = DOMAIN pre.books
            /\ DOMAIN snapshot.books = DOMAIN remote.books
            /\ \A k \in DOMAIN pre.books :
                    [books[d][k] EXCEPT !.current_page = 0, !.page = 0, !.updated_at = 0, !.uuid = 0]
                        = [pre.books[k] EXCEPT !.current_page = 0, !.page = 0, !.updated_at = 0, !.uuid = 0]
            /\ \A u \in DOMAIN remote.books :
                    [snapshot.books[u] EXCEPT !.current_page = 0, !.page = 0, !.updated_at = 0]
                        = [remote.books[u] EXCEPT !.current_page = 0, !.page = 0, !.updated_at = 0]

\* A progress-only merge has changed the progress of a local row and given
\* it the UUID of the snapshot record with its file_hash.
C8_Witness ==
    \E i \in Inv :
        /\ ProgressOnly(i)
        /\ \E k \in DOMAIN inv[i].pre.books :
                /\ books[inv[i].dev][k].page # inv[i].pre.books[k].page
                /\ books[inv[i].dev][k].uuid # inv[i].pre.books[k].uuid

\* ------------------------------------------------------------------------
\* Records whose referent is missing (SpecReferents)
\* ------------------------------------------------------------------------
\* Invocation i has merged and the snapshot it downloaded holds the live
\* bookmark u, which its device did not hold.
NewRemoteBookmark(i, u) ==
    /\ Merged(i)
    /\ inv[i].options.sync_progress
    /\ u \in DOMAIN inv[i].remote.bookmarks
    /\ inv[i].remote.bookmarks[u].deleted_at = NULL
    /\ IdByUuid(inv[i].pre.bookmarks, u) = 0

\* The same for the book_settings record u.
NewRemoteBookSettings(i, u) ==
    /\ Merged(i)
    /\ inv[i].options.sync_progress
    /\ u \in DOMAIN inv[i].remote.book_settings
    /\ inv[i].remote.book_settings[u].deleted_at = NULL
    /\ IdByUuid(inv[i].pre.book_settings, u) = 0

\* The same for the junction record u.
NewRemoteBookCollection(i, u) ==
    /\ Merged(i)
    /\ inv[i].options.sync_books
    /\ u \in DOMAIN inv[i].remote.book_collections
    /\ inv[i].remote.book_collections[u].deleted_at = NULL
    /\ ~\E bc \in inv[i].pre.book_collections : bc.uuid = u

\* C9 as stated: a live snapshot bookmark, junction row or book_settings
\* record that the device does not hold is skipped, without an error, by a
\* sync in which its book (or collection) has no local row, and is inserted
\* by a sync in which the referents have local rows, inserted by that sync's
\* own books or collections pass or before.
C9_SkippedUntilReferentExists_AsStated ==
    \A i \in Inv :
        LET d == inv[i].dev
            remote == inv[i].remote
        IN  /\ \A u \in DOMAIN remote.bookmarks : NewRemoteBookmark(i, u) =>
                    (IdByUuid(bookmarks[d], u) # 0
                        <=> IdByUuid(books[d], remote.bookmarks[u].book_uuid) # 0)
            /\ \A u \in DOMAIN remote.book_settings : NewRemoteBookSettings(i, u) =>
                    (IdByUuid(book_settings[d], u) # 0
                        <=> IdByUuid(books[d], remote.book_settings[u].book_uuid) # 0)
            /\ \A u \in DOMAIN remote.book_collections : NewRemoteBookCollection(i, u) =>
                    ((\E bc \in book_collections[d] : bc.uuid = u)
                        <=> /\ IdByUuid(books[d], remote.book_collections[u].book_uuid) # 0
                            /\ IdByUuid(collections[d],
                                        remote.book_collections[u].collection_uuid) # 0)

\* C9, amended: such a record is skipped, without an error, by a sync in
\* which its book (or collection) has no local row; a sync in which the
\* referents have local rows inserts it, unless the device holds a
\* book_settings row with another UUID for the same book, or a junction row
\* with another UUID for the same book and collection: then the record is
\* not inserted.  A bookmark is inserted whenever its book has a local row.
C9_SkippedUntilReferentExists ==
    \A i \in Inv :
        LET d == inv[i].dev
            remote == inv[i].remote
        IN  /\ \A u \in DOMAIN remote.bookmarks : NewRemoteBookmark(i, u) =>
                    (IdByUuid(bookmarks[d], u) # 0
                        <=> IdByUuid(books[d], remote.bookmarks[u].book_uuid) # 0)
            /\ \A u \in DOMAIN remote.book_settings : NewRemoteBookSettings(i, u) =>
                    (IdByUuid(book_settings[d], u) # 0
                        <=> /\ IdByUuid(books[d], remote.book_settings[u].book_uuid) # 0
                            /\ ~\E k \in DOMAIN book_settings[d] :
                                    /\ book_settings[d][k].uuid # u
                                    /\ books[d][book_settings[d][k].book_id].uuid
                                            = remote.book_settings[u].book_uuid)
            /\ \A u \in DOMAIN remote.book_collections : NewRemoteBookCollection(i, u) =>
                    ((\E bc \in book_collections[d] : bc.uuid = u)
                        <=> /\ IdByUuid(books[d], remote.book_collections[u].book_uuid) # 0
                            /\ IdByUuid(collections[d],
                                        remote.book_collections[u].collection_uuid) # 0
                            /\ ~\E bc \in book_collections[d] :
                                    /\ bc.uuid # u
                                    /\ books[d][bc.book_id].uuid
                                            = remote.book_collections[u].book_uuid
                                    /\ collections[d][bc.collection_id].uuid
                                            = remote.book_collections[u].collection_uuid)

\* A sync has inserted a bookmark whose book had no local row with its UUID
\* until the books pass of the same sync.
C9_Witness ==
    \E i \in Inv : \E u \in DOMAIN inv[i].remote.bookmarks :
        /\ NewRemoteBookmark(i, u)
        /\ IdByUuid(inv[i].pre.books, inv[i].remote.bookmarks[u].book_uuid) = 0
        /\ IdByUuid(bookmarks[inv[i].dev], u) # 0

\* ------------------------------------------------------------------------
\* Overlapping invocations (SpecConcurrent)
\* ------------------------------------------------------------------------
\* Invocation i has downloaded the snapshot and not yet made its last write
\* to sync_state.
InFlight(i) == inv[i].pc \in {"downloaded", "merged", "uploaded"}

\* C10: two sync_now invocations on one device never overlap: none is
\* past its download while another one is between its download and its
\* last write to sync_state.
C10_SyncNowSerialized ==
    \A i, j \in Inv :
        (i # j /\ InFlight(i) /\ InFlight(j)) => inv[i].dev # inv[j].dev

\* ------------------------------------------------------------------------
\* Claims on the steps of sync_now (SpecSync)
\* ------------------------------------------------------------------------
\* A step in which sync_now on device d returns an error.
ReturnsError(d) ==
    /\ returned'[d] # returned[d]
    /\ returned'[d].command = "sync_now"
    /\ returned'[d].code # "Ok"

\* C11: in every run of sync_now the merge starts only when the download
\* has completed, the snapshot is uploaded only when the merge has
\* completed, an archive blob is uploaded only when the snapshot upload has
\* succeeded, and a step that ends in a fatal error is the last of its run:
\* it writes nothing to Drive and leaves the invocation idle.
C11_StepsInOrder ==
    [][/\ \A i \in Inv :
            /\ inv'[i].pc # inv[i].pc /\ inv'[i].pc \in {"merged", "failed"}
                    => inv[i].pc = "downloaded"
            /\ inv'[i].pc # inv[i].pc /\ inv'[i].pc = "uploaded"
                    => inv[i].pc = "merged"
            /\ inv[i].pc = "failed"
                    => /\ inv'[i].pc \in {"failed", "idle"}
                       /\ drive_files' = drive_files
                       /\ drive_blobs' = drive_blobs
       /\ drive_files' # drive_files
            => \E i \in Inv : inv[i].pc = "merged" /\ inv'[i].pc = "uploaded"
       /\ ~(drive_blobs' \subseteq drive_blobs)
            => \E i \in Inv : inv[i].pc = "uploaded" /\ inv'[i].pc = "idle"
       /\ \A d \in Dev : ReturnsError(d)
            => /\ \A i \in Inv : inv[i].dev = d => inv'[i].pc = "idle"
               /\ drive_files' = drive_files
               /\ drive_blobs' = drive_blobs
               /\ catalog_vars' = catalog_vars
      ]_vars

\* A sync_now of X has gone through every step: the snapshot is on Drive,
\* the archive of its book too, and it returned Ok.
C11_Witness ==
    /\ AllIdle
    /\ returned["X"] = Ok_SyncResult(SyncResult_empty)
    /\ drive_files # <<>>
    /\ "H" \in drive_blobs

\* ------------------------------------------------------------------------
\* Claims on the archive blobs (SpecInterleaved)
\* ------------------------------------------------------------------------
\* The snapshot stored on Drive: the file that find_sync_file finds.
StoredSnapshot == download_snapshot

\* C12: at every point of any run of sync_now, every archive blob
\* book_{H}.cbz of the cloud area has a book record with file_hash H in the
\* snapshot stored on Drive.
C12_BlobsHaveRecords ==
    \A h \in drive_blobs :
        \E u \in DOMAIN StoredSnapshot.books : StoredSnapshot.books[u].file_hash = h

\* ------------------------------------------------------------------------
\* Claims on the token (SpecSync)
\* ------------------------------------------------------------------------
\* C13: when sync_now finds the stored token expired and the refresh fails
\* (the run returns an error from a state with an expired token that can be
\* refreshed), the stored token is cleared, the error code is
\* NotAuthenticated and get_auth_status reports false afterwards.
C13_RefreshFailureNotAuthenticated ==
    [][\A d \in Dev :
            /\ token[d].stored
            /\ is_expired(token[d], now)
            /\ can_refresh(token[d])
            /\ ReturnsError(d)
            => /\ token'[d] = NoToken
               /\ returned'[d].code = "NotAuthenticated"
               /\ ~get_auth_status(d)'
      ]_vars

\* The user of device d is not authenticated: no stored token, or an
\* expired one with no usable refresh token.
NotAuthenticated(d) ==
    \/ ~token[d].stored
    \/ is_expired(token[d], now) /\ ~can_refresh(token[d])

\* C14: a sync_now called by a user who is not authenticated returns the
\* error NotAuthenticated, and has written nothing to Drive, to the catalog
\* or to sync_state, nor begun any later step.
C14_NotAuthenticatedFailsEarly ==
    [][\A d \in Dev :
            /\ NotAuthenticated(d)
            /\ returned'[d] # returned[d]
            /\ returned'[d].command = "sync_now"
            => /\ returned'[d].code = "NotAuthenticated"
               /\ drive_files' = drive_files
               /\ drive_blobs' = drive_blobs
               /\ catalog_vars' = catalog_vars
               /\ inv' = inv
               /\ token' = token
      ]_vars

\* sync_now has returned NotAuthenticated to a user whose stored token is
\* expired and cannot be refreshed.
C14_Witness ==
    /\ returned["X"] = Returned("sync_now", "NotAuthenticated", {}, 0)
    /\ token["X"].stored
    /\ is_expired(token["X"], now)
    /\ ~can_refresh(token["X"])

\* ------------------------------------------------------------------------
\* Claims on the file pass (SpecFiles)
\* ------------------------------------------------------------------------
\* The archives that the file pass of invocation i has to upload: those of
\* the live books of its device that have no blob yet.
ToUpload(i) ==
    {books[inv[i].dev][k].file_hash : k \in
        {k \in LiveBooks(inv[i].dev) : books[inv[i].dev][k].file_hash \notin drive_blobs}}

\* C15: a file pass in which the upload of an archive fails goes on with
\* the other archives (here: it has uploaded one of them), the failure is
\* in SyncResult.errors, and sync_now returns the SyncResult, not an error.
C15_UploadFailureCollected ==
    [][\A i \in Inv :
            /\ inv[i].pc = "uploaded"
            /\ inv'[i].pc = "idle"
            /\ drive_blobs' # drive_blobs
            => /\ returned'[inv[i].dev].command = "sync_now"
               /\ returned'[inv[i].dev].code = "Ok"
               /\ returned'[inv[i].dev].errors = ToUpload(i) \ drive_blobs'
      ]_vars

\* A file pass has uploaded the archive H while the upload of G failed:
\* sync_now returned Ok with the failure of G in the errors.
C15_Witness ==
    /\ AllIdle
    /\ returned["X"] = Ok_SyncResult([SyncResult_empty EXCEPT !.errors = {"G"}])
    /\ "H" \in drive_blobs
    /\ "G" \notin drive_blobs

\* ------------------------------------------------------------------------
\* Claims on import_book_from_archive (SpecImport)
\* ------------------------------------------------------------------------
\* A step in which import_book_from_archive returns on device d; its
\* arguments are returned'[d].args.
ImportReturns(d) ==
    /\ returned'[d] # returned[d]
    /\ returned'[d].command = "import_book_from_archive"

LiveWithHash(d, h) ==
    {k \in DOMAIN books[d] : books[d][k].file_hash = h /\ books[d][k].deleted_at = NULL}

TombstonedWithHash(d, h) ==
    {k \in DOMAIN books[d] : books[d][k].file_hash = h /\ books[d][k].deleted_at # NULL}

\* C16: an import of an archive whose hash is the file_hash of a live book
\* returns DuplicateEntry with the title of that book, leaves every book
\* row and junction row as it was (so the number of live books too) and
\* copies nothing into the library directory, managed storage on or off.
C16_DuplicateImportRejected ==
    [][\A d \in Dev :
            /\ ImportReturns(d)
            /\ LiveWithHash(d, returned'[d].args.hash) # {}
            => /\ returned'[d].code = "DuplicateEntry"
               /\ \E k \in LiveWithHash(d, returned'[d].args.hash) :
                        returned'[d].detail = books[d][k].title
               /\ books' = books
               /\ book_collections' = book_collections
               /\ library_dir' = library_dir
      ]_vars

\* A duplicate import with managed storage on has been rejected, naming a
\* title that the user had given to the book.
C16_Witness ==
    /\ returned["X"].command = "import_book_from_archive"
    /\ returned["X"].code = "DuplicateEntry"
    /\ returned["X"].args.backup_files
    /\ returned["X"].detail # 0
    /\ LiveWithHash("X", returned["X"].args.hash) # {}

\* C17: an import of an archive whose hash is that of a tombstoned book,
\* no live book having it, adds no row: the tombstoned row keeps its id and
\* UUID, has deleted_at = NULL, the path of the import as file_path and a
\* newer updated_at, and is the one live book with that hash.
C17_TombstonedImportRestores ==
    [][\A d \in Dev :
            /\ ImportReturns(d)
            /\ LiveWithHash(d, returned'[d].args.hash) = {}
            /\ TombstonedWithHash(d, returned'[d].args.hash) # {}
            => /\ Len(books'[d]) = Len(books[d])
               /\ \E k \in TombstonedWithHash(d, returned'[d].args.hash) :
                    /\ books'[d][k].uuid = books[d][k].uuid
                    /\ books'[d][k].deleted_at = NULL
                    /\ IF returned'[d].args.backup_files
                       THEN /\ books'[d][k].file_path \in library_dir'[d]
                            /\ books'[d][k].file_path \notin library_dir[d]
                       ELSE books'[d][k].file_path = FilePath(returned'[d].args.hash)
                    /\ books'[d][k].updated_at > books[d][k].updated_at
                    /\ {j \in DOMAIN books'[d] :
                            /\ books'[d][j].file_hash = returned'[d].args.hash
                            /\ books'[d][j].deleted_at = NULL} = {k}
      ]_vars

\* C18: an import with managed storage on that fails after the copy (any
\* error but DuplicateEntry) leaves the library directory, the book rows
\* and the junction rows as they were before it.
C18_FailedImportRolledBack ==
    [][\A d \in Dev :
            /\ ImportReturns(d)
            /\ returned'[d].args.backup_files
            /\ returned'[d].code \notin {"Ok", "DuplicateEntry"}
            => /\ library_dir' = library_dir
               /\ books' = books
               /\ book_collections' = book_collections
      ]_vars

\* ------------------------------------------------------------------------
\* Claims on the domain of the rows (SpecPages, SpecCollections)
\* ------------------------------------------------------------------------
\* C19: in every reachable state every book row has
\* 0 <= current_page <= max(0, total_pages).
C19_CurrentPageInRange ==
    \A d \in Dev : \A k \in DOMAIN books[d] :
        /\ 0 <= books[d][k].current_page
        /\ books[d][k].current_page <= Max({0, books[d][k].total_pages})

\* Each name is held by at most one non-deleted collection of a device.
LiveNamesUnique ==
    \A d \in Dev : \A i, j \in LiveCollections(d) :
        collections[d][i].name = collections[d][j].name => i = j

\* The step is a delete_collection of row k on device d: a command (no
\* sync_now moves) that turns the live row into a tombstone.
DeletesCollection(d, k) ==
    /\ inv' = inv
    /\ collections[d][k].deleted_at = NULL
    /\ collections'[d][k].deleted_at # NULL

Returns(d, command, code, book_id) ==
    /\ returned'[d] # returned[d]
    /\ returned'[d].command = command
    /\ returned'[d].code = code
    /\ returned'[d].detail = book_id

C22_NewerSnapshotRefused ==
    [][\A i \in Inv : \A d \in Dev :
        (inv[i].pc # "idle" /\ inv[i].dev = d /\ inv[i].remote.version > CURRENT_VERSION)
        => /\ Catalog(d)' = Catalog(d)
           /\ drive_files' = drive_files
           /\ inv'[i].pc \notin {"merged", "uploaded"}]_vars

\* C23: a step of sync_now leaves every top-level key of the stored snapshot
\* that this version does not know in the file, with the value it had.
C23_UnknownKeysPreserved ==
    [][inv' # inv =>
        \A f \in DOMAIN drive_files :
            \A k \in DOMAIN drive_files[f] \ DOMAIN SyncSnapshot_new :
                /\ k \in DOMAIN drive_files'[f]
                /\ drive_files'[f][k] = drive_files[f][k]]_vars

\* ------------------------------------------------------------------------
\* Claims on the entries of an archive (SpecArchives)
\* ------------------------------------------------------------------------
\* An entry is an image: its name ends, whatever the case, in .jpg, .jpeg,
\* .png, .gif or .webp, does not start with '.', contains neither "/." nor
\* "__MACOSX" (and it is not a directory entry).
IsImageEntry(name) ==
    /\ \E ext \in {<<".", "j", "p", "g">>, <<".", "j", "p", "e", "g">>,
                    <<".", "p", "n", "g">>, <<".", "g", "i", "f">>,
                    <<".", "w", "e", "b", "p">>} : ends_with(to_lowercase(name), ext)
    /\ ~starts_with(name, <<".">>)
    /\ ~contains(name, <<"/", ".">>)
    /\ ~contains(name, <<"_", "_", "M", "A", "C", "O", "S", "X">>)

\* The image entries of an archive as a set of (name, payload) pairs.
ImageEntries(archive) == {e \in Range(archive) : IsImageEntry(e.name)}

\* C24: two archives have the same content hash if and only if they hold the
\* same image entries (same names, same payload per name); other entries and
\* the order of the entries make no difference.
C24_HashEqualIffSameImages ==
    calc.stage = "hashed" =>
        ((calc.hash_a = calc.hash_b) <=> (ImageEntries(calc.a) = ImageEntries(calc.b)))

\* C25: the total_pages stored at import is the number of pages the page
\* protocol lists for the archive.
C25_TotalPagesIsListedPages ==
    calc.stage = "listed" => calc.total_pages = Len(calc.image_list)

\* ------------------------------------------------------------------------
\* Claims on the uniqueness constraints (SpecSettings, SpecImport)
\* ------------------------------------------------------------------------
\* C26: after every step each book of a device has at most one book_settings
\* row; a step adds a row only for a book that had none and removes no row;
\* and a rejected insert leaves the table as it was.
C26_OneSettingsRowPerBook ==
    [][\A d \in Dev :
        /\ \A i, j \in DOMAIN book_settings'[d] :
                book_settings'[d][i].book_id = book_settings'[d][j].book_id => i = j
        /\ DOMAIN book_settings[d] \subseteq DOMAIN book_settings'[d]
        /\ \A k \in DOMAIN book_settings'[d] \ DOMAIN book_settings[d] :
                \A i \in DOMAIN book_settings[d] :
                    book_settings[d][i].book_id # book_settings'[d][k].book_id
        /\ (returned'[d] # returned[d] /\ returned'[d].command = "insert_book_settings"
                /\ returned'[d].code = "Err")
            => book_settings'[d] = book_settings[d]]_vars

\* A second insert for a book was rejected, and the one row of the book has
\* been updated in place since it was created.
C26_Witness ==
    \E d \in Dev : \E k \in DOMAIN book_settings[d] :
        /\ returned[d] = Returned("insert_book_settings", "Err", {}, book_settings[d][k].book_id)
        /\ book_settings[d][k].value > book_settings[d][k].uuid

\* C27: after every step the book rows of a device, live or tombstoned, have
\* pairwise different file_path; and an import that has to insert a row (no
\* row of the device has the archive's hash) with a file_path that a row
\* already holds fails and leaves the books table as it was.
C27_FilePathUnique ==
    [][\A d \in Dev :
        /\ \A i, j \in DOMAIN books'[d] :
                books'[d][i].file_path = books'[d][j].file_path => i = j
        /\ (/\ ImportReturns(d)
            /\ LiveWithHash(d, returned'[d].args.hash) = {}
            /\ TombstonedWithHash(d, returned'[d].args.hash) = {}
            /\ \E k \in DOMAIN books[d] :
                    books[d][k].file_path =
                        IF returned'[d].args.backup_files
                        THEN dest_path(library_dir[d], BookFilename)
                        ELSE FilePath(returned'[d].args.hash))
            => /\ returned'[d].code = "DatabaseQueryFailed"
               /\ books' = books]_vars

\* An import that had to insert a row was refused by UNIQUE(file_path): no
\* row has the archive's hash, and a tombstoned row holds the path.
C27_Witness ==
    \E d \in Dev :
        /\ returned[d].command = "import_book_from_archive"
        /\ returned[d].code = "DatabaseQueryFailed"
        /\ \A k \in DOMAIN books[d] : books[d][k].file_hash # returned[d].args.hash
        /\ \E k \in DOMAIN books[d] :
                books[d][k].deleted_at # NULL /\ books[d][k].file_path.kind = "library"

\* ------------------------------------------------------------------------
\* Claims on delete_book (SpecDeletes)
\* ------------------------------------------------------------------------
\* C28: no step removes a row from the books table, and a step in which
\* delete_book(k) returns leaves row k tombstoned, with deleted_at set and a
\* greater updated_at, whether the blob was deleted on Drive or not.
C28_DeleteTombstonesAlways ==
    [][\A d \in Dev :
        /\ DOMAIN books[d] \subseteq DOMAIN books'[d]
        /\ \A k \in DOMAIN books[d] :
            (returned'[d] # returned[d] /\ returned'[d].command = "delete_book"
                /\ returned'[d].detail = k)
            => /\ books'[d][k].deleted_at # NULL
               /\ books'[d][k].updated_at > books[d][k].updated_at
               /\ books'[d][k].updated_at = books'[d][k].deleted_at]_vars

\* A book whose blob is on Drive was deleted while the user was signed out:
\* the row is tombstoned and the blob is still there.
C28_Witness ==
    \E k \in DOMAIN books["X"] :
        /\ returned["X"] = Returned("delete_book", "Ok", {}, k)
        /\ books["X"][k].deleted_at # NULL
        /\ books["X"][k].file_hash \in drive_blobs
        /\ ~token["X"].stored

\* ------------------------------------------------------------------------
\* Claims on the status of a token (SpecTokens)
\* ------------------------------------------------------------------------
\* C29: for every token whose status was computed, is_authenticated holds
\* iff the token was not expired (a token without an expiry time counting
\* as not expired) or has a non-empty refresh token, and needs_refresh holds
\* iff the token was expired and has a non-empty refresh token; expired is
\* taken at the reading of the clock of each field.
C29_AuthStatusOfToken ==
    calc.stage = "status" =>
        LET t == calc.token
            non_empty_refresh == t.refresh_token \in {Some("r")}
            expired(at) == t.expires_at # None
                           /\ at >= wrapping_sub(t.expires_at[1], ExpiryBuffer)
        IN  /\ calc.status.is_authenticated <=> (~expired(calc.at) \/ non_empty_refresh)
            /\ calc.status.needs_refresh <=> (expired(calc.at2) /\ non_empty_refresh)

\* The status of an expired token with an empty refresh token: neither
\* authenticated nor in need of a refresh.
C29_Witness ==
    /\ calc.stage = "status"
    /\ calc.token.refresh_token = Some("")
    /\ calc.token.expires_at = Some(ExpiryBuffer + 4)
    /\ calc.at2 > calc.at
    /\ ~calc.status.is_authenticated
    /\ ~calc.status.needs_refresh

\* ------------------------------------------------------------------------
\* Claims on the snapshot file of two devices (SpecDevices)
\* ------------------------------------------------------------------------
\* C30: whatever the interleaving of the syncs of the devices, at most one
\* file named sync_snapshot.json exists in the cloud area of the user.
C30_OneSnapshotFile == Len(drive_files) <= 1

\* ------------------------------------------------------------------------
\* Claims on the merge of book_settings (SpecSettings)
\* ------------------------------------------------------------------------
\* C31: when a sync_now with sync_progress on has merged, a book_settings
\* row that existed on both sides is the same on both: where the local row
\* had the greater updated_at the snapshot to upload holds its value, and
\* where the snapshot record had the greater updated_at the local row holds
\* the value of the record.
C31_SettingsLastWriteWins ==
    \A i \in Inv :
        (inv[i].pc = "merged" /\ inv[i].options.sync_progress) =>
            \A k \in DOMAIN inv[i].pre.book_settings :
                LET l == inv[i].pre.book_settings[k]
                IN  (/\ l.uuid \in DOMAIN inv[i].remote.book_settings
                     /\ l.deleted_at = NULL
                     /\ inv[i].remote.book_settings[l.uuid].deleted_at = NULL)
                    => /\ to_timestamp(l.updated_at) > inv[i].remote.book_settings[l.uuid].updated_at
                            => inv[i].snapshot.book_settings[l.uuid].value = l.value
                       /\ inv[i].remote.book_settings[l.uuid].updated_at > to_timestamp(l.updated_at)
                            => book_settings[inv[i].dev][k].value =
                                    inv[i].remote.book_settings[l.uuid].value

\* ------------------------------------------------------------------------
\* Claims on the junction rows (SpecJunctions)
\* ------------------------------------------------------------------------
\* C32: when a sync_now with sync_books on has merged on a device whose last
\* command took a book out of collections, every collection the book was
\* not in before the merge is one it is still not in, and the snapshot to
\* upload holds no live junction record for the book and that collection.
C32_RemovedJunctionStaysRemoved ==
    \A i \in Inv :
        (/\ inv[i].pc = "merged"
         /\ inv[i].options.sync_books
         /\ returned[inv[i].dev].command \in
                {"remove_book_from_collection", "set_book_collections"}) =>
            LET d == inv[i].dev
                b == returned[d].detail
            IN  \A c \in DOMAIN inv[i].pre.collections :
                    (~\E bc \in inv[i].pre.book_collections :
                            bc.book_id = b /\ bc.collection_id = c)
                    => /\ ~\E bc \in book_collections[d] :
                                bc.book_id = b /\ bc.collection_id = c
                       /\ \A u \in DOMAIN inv[i].snapshot.book_collections :
                            LET r == inv[i].snapshot.book_collections[u]
                            IN  (/\ r.book_uuid = inv[i].pre.books[b].uuid
                                 /\ r.collection_uuid = inv[i].pre.collections[c].uuid)
                                => r.deleted_at # NULL

\* ------------------------------------------------------------------------
\* Claims on the conflict strategies (SpecStrategies)
\* ------------------------------------------------------------------------
\* C33: when an engine with RemoteWins has merged, every book row that was
\* live on both sides holds the values of the snapshot's record; with
\* LocalWins the record to upload holds the values the local row had; and
\* under both a tombstone on one side only has reached the other side.
C33_StrategyOverridesTimestamps ==
    \A i \in Inv :
        (inv[i].pc = "merged" /\ calc.stage = "strategy") =>
            \A k \in DOMAIN inv[i].pre.books :
                LET l == inv[i].pre.books[k]
                    u == l.uuid
                    d == inv[i].dev
                IN  u \in DOMAIN inv[i].remote.books =>
                    LET r == inv[i].remote.books[u]
                    IN  /\ (l.deleted_at = NULL /\ r.deleted_at = NULL
                                /\ calc.strategy = "RemoteWins")
                            => /\ books[d][k].title = r.title
                               /\ books[d][k].deleted_at = NULL
                        /\ (l.deleted_at = NULL /\ r.deleted_at = NULL
                                /\ calc.strategy = "LocalWins")
                            => /\ inv[i].snapshot.books[u].title = l.title
                               /\ inv[i].snapshot.books[u].deleted_at = NULL
                        /\ (l.deleted_at = NULL /\ r.deleted_at # NULL)
                            => books[d][k].deleted_at # NULL
                        /\ (l.deleted_at # NULL /\ r.deleted_at = NULL)
                            => inv[i].snapshot.books[u].deleted_at # NULL

C35_EvictsLeastRecentlyUsed ==
    [][\A d \in Dev :
        LET map == IMAGE_LIST_CACHE[d]
            after == IMAGE_LIST_CACHE'[d]
        IN  /\ Cardinality(DOMAIN after) <= MAX_CACHE_SIZE
            /\ (/\ Cardinality(DOMAIN map) = MAX_CACHE_SIZE
                /\ DOMAIN after \ DOMAIN map # {})
               => DOMAIN map \ DOMAIN after = {Head(page_requests[d].used)}]_vars

\* ------------------------------------------------------------------------
\* Claims on a sync_now that follows a failed upload (SpecFull)
\* ------------------------------------------------------------------------
\* C36: when the last sync_now of a device failed at the upload of the
\* snapshot and its next sync_now has uploaded, every book row the device
\* held before the merge with an updated_at greater than that of the
\* downloaded record is in the uploaded snapshot with its local updated_at,
\* whether the row was edited before or after the failed run.
C36_EditsSurviveFailedUpload ==
    \A i \in Inv :
        (/\ inv[i].pc = "uploaded"
         /\ returned[inv[i].dev] = Returned("sync_now", "SyncFailed", {}, 0))
        => LET pre == inv[i].pre
               remote == inv[i].remote
           IN  \A k \in DOMAIN pre.books :
                   LET u == pre.books[k].uuid
                       local_ts == to_timestamp(pre.books[k].updated_at)
                   IN  (u \in DOMAIN remote.books /\ local_ts > remote.books[u].updated_at)
                       => /\ u \in DOMAIN drive_files[inv[i].file_id].books
                          /\ drive_files[inv[i].file_id].books[u].updated_at = local_ts

\* ------------------------------------------------------------------------
\* Claims on a collection created on two devices (SpecNames)
\* ------------------------------------------------------------------------
\* C37: when the downloaded snapshot holds a live collection named n under
\* a UUID the device does not hold, and the device holds a live collection
\* named n under another UUID, the merge of a sync_now with sync_books on
\* does not fail, and it leaves at most one live collection named n.
C37_SameNameOnTwoDevicesMerges ==
    \A i \in Inv : (inv[i].pc \in {"merged", "failed"} /\ inv[i].options.sync_books) =>
        LET d == inv[i].dev
            pre == inv[i].pre
            remote == inv[i].remote
            clash(n) ==
                /\ \E u \in DOMAIN remote.collections :
                        /\ remote.collections[u].name = LiveName(n)
                        /\ remote.collections[u].deleted_at = NULL
                        /\ \A k \in DOMAIN pre.collections : pre.collections[k].uuid # u
                /\ \E k \in DOMAIN pre.collections :
                        /\ pre.collections[k].name = LiveName(n)
                        /\ pre.collections[k].deleted_at = NULL
        IN  \A n \in CollectionNames : clash(n) =>
                /\ inv[i].pc = "merged"
                /\ Cardinality({k \in DOMAIN collections[d] :
                        /\ collections[d][k].name = LiveName(n)
                        /\ collections[d][k].deleted_at = NULL}) <= 1

\* ------------------------------------------------------------------------
\* Claims on the references inside a snapshot (SpecReferents)
\* ------------------------------------------------------------------------
\* C38: in every snapshot uploaded by sync_now, under any of the option
\* combinations, the book_uuid of every bookmark, junction and book_settings
\* record is a key of the snapshot's books, and the collection_uuid of
\* every junction record is a key of its collections.
C38_SnapshotReferencesResolve ==
    \A i \in Inv : inv[i].pc = "uploaded" =>
        LET snapshot == drive_files[inv[i].file_id]
        IN  /\ \A u \in DOMAIN snapshot.bookmarks :
                    snapshot.bookmarks[u].book_uuid \in DOMAIN snapshot.books
            /\ \A u \in DOMAIN snapshot.book_settings :
                    snapshot.book_settings[u].book_uuid \in DOMAIN snapshot.books
            /\ \A u \in DOMAIN snapshot.book_collections :
                    /\ snapshot.book_collections[u].book_uuid \in DOMAIN snapshot.books
                    /\ snapshot.book_collections[u].collection_uuid
                            \in DOMAIN snapshot.collections

\* ------------------------------------------------------------------------
\* Claims on imports of files overwritten in place (SpecReplaced)
\* ------------------------------------------------------------------------
\* C39: an import with managed storage off and no collection, of an archive
\* whose content hash no live book has, succeeds and leaves exactly one
\* live book with that hash, also when a tombstoned book with another hash
\* records the path of the archive.
C39_UnmanagedImportFailsOnlyOnLiveHash ==
    [][\A d \in Dev :
        (/\ ImportReturns(d)
         /\ ~returned'[d].args.backup_files
         /\ returned'[d].args.collection_id = NULL
         /\ LiveWithHash(d, returned'[d].args.hash) = {})
        => /\ returned'[d].code = "Ok"
           /\ Cardinality({k \in DOMAIN books'[d] :
                    /\ books'[d][k].file_hash = returned'[d].args.hash
                    /\ books'[d][k].deleted_at = NULL}) = 1]_vars

\* ------------------------------------------------------------------------
\* Claims on the SyncResult of sync_now (SpecFiles)
\* ------------------------------------------------------------------------
\* C40: every SyncResult returned by sync_now has success = true exactly
\* when its errors list is empty.
C40_SuccessIffNoErrors ==
    [][\A d \in Dev :
        (/\ returned'[d] # returned[d]
         /\ returned'[d].command = "sync_now"
         /\ returned'[d].code = "Ok")
        => (returned'[d].success <=> returned'[d].errors = {})]_vars

====
